---- MODULE Spec2Model ----
(***************************************************************************)
(* A model of gauge_pybuild_plugin's core: GaugeConfig (validation,        *)
(* to_command_args, get_environment) and GaugeTask (executable resolution, *)
(* run / validate / format_specs / install_plugin over _run_command).      *)
(*                                                                         *)
(* Text is a sequence of one-character strings, so that splitting, joining *)
(* and the equality test of list.remove are computed and not assumed.      *)
(***************************************************************************)
EXTENDS Integers, Sequences, FiniteSets, TLC

(***************************************************************************)
(* Bounds of the model.                                                    *)
(***************************************************************************)
\* nodes is drawn from -1 .. MaxNodes
MaxNodes == 3
\* the subprocess exit code is drawn from 0 .. MaxExit
MaxExit == 2

\* The tasks a caller holds at a time.
MaxTasks == 2

(***************************************************************************)
(* Python values.                                                          *)
(***************************************************************************)
\* Python's None where a text is expected: a one-element sequence whose
\* element is no character, so it equals no text.
None == <<"<None>">>

\* Python's None where a list of texts is expected (Optional[List[str]]).
NoList == <<None>>

\* bool(v) of an Optional[str]: None and the empty text are false.
Truthy(v) == v # None /\ v # <<>>

\* bool(l) of an Optional[List[str]]: None and the empty list are false.
TruthyList(l) == l # NoList /\ l # <<>>

\* `x in lst` of a Python list.
In(x, lst) == \E i \in 1..Len(lst) : lst[i] = x

\* list.remove(x): drops the first element equal to x (the caller tests
\* `x in lst` first).
Remove(lst, x) ==
  LET i == CHOOSE j \in 1..Len(lst) : lst[j] = x /\ \A k \in 1..(j-1) : lst[k] # x
  IN  SubSeq(lst, 1, i-1) \o SubSeq(lst, i+1, Len(lst))

\* The characters str.split() treats as separators.
Whitespace == {" ", "\t", "\n"}

\* str.split() with no argument: the maximal runs of non-whitespace
\* characters, in order; no empty token.
RECURSIVE SplitFrom(_, _, _)
SplitFrom(s, i, cur) ==
  IF i > Len(s)
    THEN IF cur = <<>> THEN <<>> ELSE <<cur>>
    ELSE IF s[i] \in Whitespace
           THEN (IF cur = <<>> THEN <<>> ELSE <<cur>>) \o SplitFrom(s, i+1, <<>>)
           ELSE SplitFrom(s, i+1, Append(cur, s[i]))

Split(s) == SplitFrom(s, 1, <<>>)

Digits == <<"0", "1", "2", "3", "4", "5", "6", "7", "8", "9">>

RECURSIVE NatToStr(_)
NatToStr(n) ==
  IF n < 10 THEN <<Digits[n+1]>>
  ELSE Append(NatToStr(n \div 10), Digits[(n % 10) + 1])

\* str(n) of an int.
IntToStr(n) == IF n < 0 THEN <<"-">> \o NatToStr(0 - n) ELSE NatToStr(n)

\* dict.update: e's entries overlay d's.
DictUpdate(d, e) ==
  [k \in (DOMAIN d) \cup (DOMAIN e) |-> IF k \in DOMAIN e THEN e[k] ELSE d[k]]

\* d with d[k] = v.
DictSet(d, k, v) ==
  [x \in (DOMAIN d) \cup {k} |-> IF x = k THEN v ELSE d[x]]

EmptyDict == [k \in {} |-> <<>>]

(***************************************************************************)
(* The literals of core.py.                                                *)
(***************************************************************************)
TagsFlag     == <<"-", "-", "t", "a", "g", "s">>
ParallelFlag == <<"-", "-", "p", "a", "r", "a", "l", "l", "e", "l">>
NodesFlag    == <<"-", "-", "n">>
EnvFlag      == <<"-", "-", "e", "n", "v">>
VersionFlag  == <<"-", "-", "v", "e", "r", "s", "i", "o", "n">>
RunCmd       == <<"r", "u", "n">>
ValidateCmd  == <<"v", "a", "l", "i", "d", "a", "t", "e">>
FormatCmd    == <<"f", "o", "r", "m", "a", "t">>
InstallCmd   == <<"i", "n", "s", "t", "a", "l", "l">>
GAUGE_ROOT   == <<"G", "A", "U", "G", "E", "_", "R", "O", "O", "T">>
BinGauge     == <<"/", "b", "i", "n", "/", "g", "a", "u", "g", "e">>
SpecsDefault == <<"s", "p", "e", "c", "s">>

(***************************************************************************)
(* GaugeConfig.                                                            *)
(***************************************************************************)
\* The fields in declaration order.
FieldNames == <<"specs_dir", "tags", "in_parallel", "nodes", "env",
                "additional_flags", "project_dir", "gauge_root",
                "environment_variables">>

\* The Field(default=...) of each field.
DefaultConfig ==
  [specs_dir |-> SpecsDefault, tags |-> None, in_parallel |-> FALSE,
   nodes |-> 1, env |-> None, additional_flags |-> None,
   project_dir |-> None, gauge_root |-> None,
   environment_variables |-> EmptyDict]

\* validate_nodes: the value is accepted as it is, or the constructor raises.
NodesLowerBoundOff(v) == v >= 0

validate_nodes(v) == v >= 1

\* GaugeConfig(**kw) with no validator on any field.
ConstructUnchecked(kw) == TRUE

\* GaugeConfig(**kw). kw.names is the order in which the keywords were
\* written, kw.vals their values. Every field takes the keyword's value when
\* one was written and its default otherwise; the validator of nodes runs on
\* a written value only.
ConstructOk(kw) == In("nodes", kw.names) => validate_nodes(kw.vals.nodes)

ConstructValue(kw) ==
  [f \in DOMAIN DefaultConfig |->
     IF In(f, kw.names) THEN kw.vals[f] ELSE DefaultConfig[f]]

\* to_command_args with the flag pairs in another order.
ArgsEnvBeforeParallel(c) ==
  LET a1 == IF Truthy(c.tags) THEN <<TagsFlag, c.tags>> ELSE <<>>
      a2 == IF Truthy(c.env) THEN a1 \o <<EnvFlag, c.env>> ELSE a1
      a3 == IF c.in_parallel
              THEN IF c.nodes > 1
                     THEN a2 \o <<ParallelFlag, NodesFlag, IntToStr(c.nodes)>>
                     ELSE Append(a2, ParallelFlag)
              ELSE a2
      a4 == IF Truthy(c.additional_flags) THEN a3 \o Split(c.additional_flags) ELSE a3
  IN  IF Truthy(c.specs_dir) THEN Append(a4, c.specs_dir) ELSE a4

\* to_command_args emitting the node count whenever nodes > 1.
ArgsNodesWithoutParallel(c) ==
  LET a1 == IF Truthy(c.tags) THEN <<TagsFlag, c.tags>> ELSE <<>>
      a2 == IF c.in_parallel THEN Append(a1, ParallelFlag) ELSE a1
      a3 == IF c.nodes > 1 THEN a2 \o <<NodesFlag, IntToStr(c.nodes)>> ELSE a2
      a4 == IF Truthy(c.env) THEN a3 \o <<EnvFlag, c.env>> ELSE a3
      a5 == IF Truthy(c.additional_flags) THEN a4 \o Split(c.additional_flags) ELSE a4
  IN  IF Truthy(c.specs_dir) THEN Append(a5, c.specs_dir) ELSE a5

\* GaugeConfig.to_command_args: args after each `if` of the method.
to_command_args(c) ==
  LET a1 == IF Truthy(c.tags) THEN <<TagsFlag, c.tags>> ELSE <<>>
      a2 == IF c.in_parallel
              THEN IF c.nodes > 1
                     THEN a1 \o <<ParallelFlag, NodesFlag, IntToStr(c.nodes)>>
                     ELSE Append(a1, ParallelFlag)
              ELSE a1
      a3 == IF Truthy(c.env) THEN a2 \o <<EnvFlag, c.env>> ELSE a2
      a4 == IF Truthy(c.additional_flags) THEN a3 \o Split(c.additional_flags) ELSE a3
  IN  IF Truthy(c.specs_dir) THEN Append(a4, c.specs_dir) ELSE a4

\* get_environment with the two overlays in the other order.
EnvironmentRootLast(c, osenv) ==
  LET e1 == DictUpdate(osenv, c.environment_variables)
  IN  IF Truthy(c.gauge_root) THEN DictSet(e1, GAUGE_ROOT, c.gauge_root) ELSE e1

\* get_environment that drops an inherited GAUGE_ROOT when gauge_root is unset.
EnvironmentRootDropped(c, osenv) ==
  LET base == [k \in (DOMAIN osenv) \ {GAUGE_ROOT} |-> osenv[k]]
      e1 == IF Truthy(c.gauge_root) THEN DictSet(base, GAUGE_ROOT, c.gauge_root) ELSE base
  IN  DictUpdate(e1, c.environment_variables)

\* GaugeConfig.get_environment: a copy of os.environ, GAUGE_ROOT, then the
\* configured variables.
get_environment(c, osenv) ==
  LET e1 == IF Truthy(c.gauge_root) THEN DictSet(osenv, GAUGE_ROOT, c.gauge_root) ELSE osenv
  IN  DictUpdate(e1, c.environment_variables)

\* get_environment that composes in os.environ itself and returns it.
EnvironmentCallInPlace(c, osenv) ==
  [env |-> get_environment(c, osenv), object |-> "environ",
   environ |-> get_environment(c, osenv)]

\* get_environment as a call on objects: the mapping it returns, which
\* object that is ("fresh": the copy made by os.environ.copy(); "environ":
\* os.environ itself), and os.environ after the call.
environment_call(c, osenv) ==
  [env |-> get_environment(c, osenv), object |-> "fresh", environ |-> osenv]

(***************************************************************************)
(* GaugeTask.                                                              *)
(***************************************************************************)
RECURSIVE StripSlashes(_)
StripSlashes(p) ==
  IF Len(p) > 1 /\ p[Len(p)] = "/" THEN StripSlashes(SubSeq(p, 1, Len(p) - 1)) ELSE p

\* str(Path(root) / "bin" / "gauge"): pathlib drops the slashes that end
\* root and joins the parts with one "/".
BinGaugeUnder(root) ==
  LET r == StripSlashes(root)
  IN  IF r = <<"/">> THEN BinGauge ELSE r \o BinGauge

\* _find_gauge_executable that asks the search path before gauge_root.
FindPathFirst(c, fs, w) ==
  IF Truthy(w)
    THEN [found |-> TRUE, exe |-> w, searches |-> 1]
    ELSE IF Truthy(c.gauge_root) /\ BinGaugeUnder(c.gauge_root) \in fs
           THEN [found |-> TRUE, exe |-> BinGaugeUnder(c.gauge_root), searches |-> 1]
           ELSE [found |-> FALSE, exe |-> None, searches |-> 1]

\* _find_gauge_executable that falls back to the bare program name instead
\* of raising.
FindFallsBackToName(c, fs, w) ==
  IF Truthy(c.gauge_root) /\ BinGaugeUnder(c.gauge_root) \in fs
    THEN [found |-> TRUE, exe |-> BinGaugeUnder(c.gauge_root), searches |-> 0]
    ELSE IF Truthy(w)
           THEN [found |-> TRUE, exe |-> w, searches |-> 1]
           ELSE [found |-> TRUE, exe |-> <<"g", "a", "u", "g", "e">>, searches |-> 1]

\* GaugeTask._find_gauge_executable. fs is the set of paths that exist, w is
\* what shutil.which("gauge") returns (None when the search path has no
\* gauge); searches counts the calls of shutil.which. found = FALSE is the
\* RuntimeError("Gauge executable not found ...").
find_gauge_executable(c, fs, w) ==
  IF Truthy(c.gauge_root) /\ BinGaugeUnder(c.gauge_root) \in fs
    THEN [found |-> TRUE, exe |-> BinGaugeUnder(c.gauge_root), searches |-> 0]
    ELSE IF Truthy(w)
           THEN [found |-> TRUE, exe |-> w, searches |-> 1]
           ELSE [found |-> FALSE, exe |-> None, searches |-> 1]

\* `result.returncode == 0` taking a process killed by a signal (a negative
\* return code) for a success.
SuccessBelowOne(returncode) == returncode < 1

\* `result.returncode == 0`, the value the four operations return.
Success(returncode) == returncode = 0

\* The working directory when project_dir is not looked at.
WorkingDirAmbientOnly(c, getcwd) == getcwd

\* The working directory _run_command picks (no operation passes cwd).
working_dir(c, getcwd) == IF Truthy(c.project_dir) THEN c.project_dir ELSE getcwd

\* The command of run(specs) that leaves the directory token in place.
RunCommandKeepsDir(c, exe, specs) ==
  LET command == <<exe, RunCmd>> \o to_command_args(c)
  IN  IF TruthyList(specs) THEN command \o specs ELSE command

\* The command list GaugeTask.run hands to _run_command.
run_command(c, exe, specs) ==
  LET command == <<exe, RunCmd>> \o to_command_args(c)
  IN  IF TruthyList(specs)
        THEN (IF In(c.specs_dir, command) THEN Remove(command, c.specs_dir)
              ELSE command) \o specs
        ELSE command

\* validate building its command the way run does, from to_command_args.
ValidateCommandWithArgs(c, exe) == <<exe, ValidateCmd>> \o to_command_args(c)

\* The command list of GaugeTask.validate.
validate_command(c, exe) ==
  IF Truthy(c.specs_dir) THEN <<exe, ValidateCmd, c.specs_dir>> ELSE <<exe, ValidateCmd>>

\* The command list of GaugeTask.format_specs.
format_command(c, exe) ==
  IF Truthy(c.specs_dir) THEN <<exe, FormatCmd, c.specs_dir>> ELSE <<exe, FormatCmd>>

\* install_plugin testing `version is not None` instead of `version`.
InstallCommandVersionNotNone(exe, plugin_name, version) ==
  IF version # None THEN <<exe, InstallCmd, plugin_name, VersionFlag, version>>
  ELSE <<exe, InstallCmd, plugin_name>>

\* The command list of GaugeTask.install_plugin.
install_command(exe, plugin_name, version) ==
  IF Truthy(version) THEN <<exe, InstallCmd, plugin_name, VersionFlag, version>>
  ELSE <<exe, InstallCmd, plugin_name>>

(***************************************************************************)
(* State.                                                                  *)
(***************************************************************************)
VARIABLES
  kw,       \* the keywords of GaugeConfig(**kw): [names, vals]
  config,   \* GaugeTask.config: <<>> while none was built, else <<the GaugeConfig>>
  environ,  \* os.environ
  files,    \* the paths that exist
  which,    \* what shutil.which("gauge") returns
  getcwd,   \* what os.getcwd() returns
  tool,     \* the external gauge: whether it can be spawned, and its exit code
  call,     \* the last call made on the configuration or the task, and its outcome
  tomlfile, \* the configuration file: whether it exists, and what toml.load gives
  plugin,   \* the GaugePlugin: its config_file and the configuration it loaded
  host      \* the caller of the plugin: the override it passed, its exit code

vars == <<kw, config, environ, files, which, getcwd, tool, call, tomlfile, plugin, host>>

ambient == <<environ, files, which, getcwd, tool>>

outer == <<tomlfile, plugin, host>>

\* No configuration file.
NoFile ==
  [exists |-> FALSE, malformed |-> FALSE, has_tool |-> FALSE,
   tool_gauge |-> <<>>, gauge |-> <<>>]

\* No GaugePlugin constructed yet.
NoPlugin == [config_file |-> None, state |-> "none", config |-> <<>>, error |-> "none"]

\* No caller.
\* tasks are the tasks create_task returned that the caller still holds.
NoHost ==
  [cmd |-> "none", override |-> <<>>, exit |-> -1, echo |-> <<>>, tasks |-> <<>>,
   options |-> <<>>]

\* No call made yet.
NoCall ==
  [op |-> "none", specs |-> NoList, plugin |-> None, version |-> None,
   outcome |-> "none", error |-> "none", value |-> FALSE,
   args |-> <<>>, env |-> EmptyDict,
   exe |-> None, searches |-> 0,
   argv |-> <<>>, wd |-> None, spawnenv |-> EmptyDict,
   attempts |-> 0, completed |-> 0, returncode |-> 0,
   stale |-> FALSE, envref |-> "none", step |-> "idle"]

ErrValidation == "ValidationError: nodes must be at least 1"
ErrNotFound   == "RuntimeError: Gauge executable not found"
ErrExecute    == "RuntimeError: Failed to execute command"

\* The operations when a subprocess.run that raises is reported as a false
\* result.
ExecutedSpawnFailureFalse(base, c, found, command) ==
  IF ~found.found
    THEN [base EXCEPT !.outcome = "raised", !.error = ErrNotFound,
                      !.searches = found.searches]
    ELSE [base EXCEPT !.exe = found.exe, !.searches = found.searches,
                      !.argv = command,
                      !.spawnenv = get_environment(c, environ),
                      !.wd = working_dir(c, getcwd),
                      !.attempts = 1,
                      !.outcome = "returned",
                      !.completed = IF tool.spawns THEN 1 ELSE 0,
                      !.returncode = IF tool.spawns THEN tool.exit ELSE 0,
                      !.value = tool.spawns /\ Success(tool.exit)]

\* The operations when the task keeps what its first operation resolved:
\* the executable, the environment and the working directory.
ExecutedFromCache(base, c, found, command) ==
  IF call.attempts = 0
    THEN IF ~found.found
           THEN [base EXCEPT !.outcome = "raised", !.error = ErrNotFound,
                             !.searches = found.searches]
           ELSE [base EXCEPT !.exe = found.exe, !.searches = found.searches,
                             !.argv = command,
                             !.spawnenv = get_environment(c, environ),
                             !.wd = working_dir(c, getcwd),
                             !.attempts = 1,
                             !.outcome = IF tool.spawns THEN "returned" ELSE "raised",
                             !.error = IF tool.spawns THEN "none" ELSE ErrExecute,
                             !.completed = IF tool.spawns THEN 1 ELSE 0,
                             !.returncode = IF tool.spawns THEN tool.exit ELSE 0,
                             !.value = tool.spawns /\ Success(tool.exit)]
    ELSE [base EXCEPT !.exe = call.exe, !.searches = 0,
                      !.argv = <<call.exe>> \o Tail(command),
                      !.spawnenv = call.spawnenv,
                      !.wd = call.wd,
                      !.attempts = 1,
                      !.outcome = IF tool.spawns THEN "returned" ELSE "raised",
                      !.error = IF tool.spawns THEN "none" ELSE ErrExecute,
                      !.completed = IF tool.spawns THEN 1 ELSE 0,
                      !.returncode = IF tool.spawns THEN tool.exit ELSE 0,
                      !.value = tool.spawns /\ Success(tool.exit)]

\* One of run / validate / format_specs / install_plugin after its command
\* list is known: _find_gauge_executable came first and raised or gave
\* found.exe; then _run_command composes the environment, picks the working
\* directory, calls subprocess.run once, and the operation returns
\* returncode == 0. subprocess.run raising becomes the RuntimeError of
\* _run_command.
Executed(base, c, found, command) ==
  IF ~found.found
    THEN [base EXCEPT !.outcome = "raised", !.error = ErrNotFound,
                      !.searches = found.searches]
    ELSE LET started ==
               [base EXCEPT !.exe = found.exe, !.searches = found.searches,
                            !.argv = command,
                            !.spawnenv = get_environment(c, environ),
                            !.wd = working_dir(c, getcwd),
                            !.attempts = 1]
         IN  IF ~tool.spawns
               THEN [started EXCEPT !.outcome = "raised", !.error = ErrExecute]
               ELSE [started EXCEPT !.outcome = "returned", !.completed = 1,
                                    !.returncode = tool.exit,
                                    !.value = Success(tool.exit)]

(***************************************************************************)
(* Operations.                                                             *)
(***************************************************************************)
\* GaugeConfig(**kw), wrapped in a GaugeTask when it is built.
Construct ==
  /\ config = <<>>
  /\ call.op = "none"
  /\ IF ConstructOk(kw)
       THEN /\ config' = <<ConstructValue(kw)>>
            /\ call' = [NoCall EXCEPT !.op = "construct", !.outcome = "returned"]
       ELSE /\ config' = <<>>
            /\ call' = [NoCall EXCEPT !.op = "construct", !.outcome = "raised",
                                      !.error = ErrValidation]
  /\ UNCHANGED <<kw, ambient, outer>>

\* config.to_command_args()
ToCommandArgs ==
  /\ config # <<>>
  /\ call' = [NoCall EXCEPT !.op = "to_command_args", !.outcome = "returned",
                            !.args = to_command_args(config[1])]
  /\ UNCHANGED <<kw, config, ambient, outer>>

\* config.get_environment()
GetEnvironment ==
  /\ config # <<>>
  /\ LET r == environment_call(config[1], environ)
     IN  /\ call' = [NoCall EXCEPT !.op = "get_environment", !.outcome = "returned",
                                   !.env = r.env, !.envref = r.object]
         /\ environ' = r.environ
  /\ UNCHANGED <<kw, config, files, which, getcwd, tool, outer>>

\* The caller sets key k of the mapping get_environment returned; when that
\* mapping is os.environ itself, os.environ has the key too. The record of
\* the call is then stale.
ChangeReturned(k, v) ==
  /\ call.op = "get_environment" /\ ~call.stale
  /\ call' = [call EXCEPT !.env = DictSet(@, k, v), !.stale = TRUE]
  /\ environ' = IF call.envref = "environ" THEN DictSet(environ, k, v) ELSE environ
  /\ UNCHANGED <<kw, config, files, which, getcwd, tool, outer>>

\* task.run(specs)
Run(specs) ==
  /\ config # <<>>
  /\ LET c == config[1]
         found == find_gauge_executable(c, files, which)
     IN  call' = Executed([NoCall EXCEPT !.op = "run", !.specs = specs],
                          c, found, run_command(c, found.exe, specs))
  /\ UNCHANGED <<kw, config, ambient, outer>>

\* task.validate()
Validate ==
  /\ config # <<>>
  /\ LET c == config[1]
         found == find_gauge_executable(c, files, which)
     IN  call' = Executed([NoCall EXCEPT !.op = "validate"],
                          c, found, validate_command(c, found.exe))
  /\ UNCHANGED <<kw, config, ambient, outer>>

\* task.format_specs()
FormatSpecs ==
  /\ config # <<>>
  /\ LET c == config[1]
         found == find_gauge_executable(c, files, which)
     IN  call' = Executed([NoCall EXCEPT !.op = "format_specs"],
                          c, found, format_command(c, found.exe))
  /\ UNCHANGED <<kw, config, ambient, outer>>

\* task.install_plugin(plugin_name, version)
InstallPlugin(plugin_name, version) ==
  /\ config # <<>>
  /\ LET c == config[1]
         found == find_gauge_executable(c, files, which)
     IN  call' = Executed([NoCall EXCEPT !.op = "install_plugin",
                                         !.plugin = plugin_name, !.version = version],
                          c, found, install_command(found.exe, plugin_name, version))
  /\ UNCHANGED <<kw, config, ambient, outer>>

(***************************************************************************)
(* Inputs.                                                                 *)
(***************************************************************************)
Empty      == <<>>
Smoke      == <<"s", "m", "o", "k", "e">>
Dev        == <<"d", "e", "v">>
Blank      == <<" ", "\t">>
TwoFlags   == <<" ", "-", "v", " ", "\t", "-", "s", "\n">>
SpecsFlag  == <<"s", "p", "e", "c", "s", " ", "-", "v">>
Proj       == <<"p", "r", "o", "j">>
Home       == <<"/", "h", "o", "m", "e">>
OptGauge   == <<"/", "o", "p", "t", "/", "g", "a", "u", "g", "e">>
OptGaugeSl == OptGauge \o <<"/">>
OtherRoot  == <<"/", "x">>
UsrBin     == <<"/", "u", "s", "r", "/", "b", "i", "n", "/", "g", "a", "u", "g", "e">>
ASpec      == <<"a", ".", "s", "p", "e", "c">>
BSpec      == <<"b", ".", "s", "p", "e", "c">>
Java       == <<"j", "a", "v", "a">>
V1         == <<"1", ".", "0">>
TEST_VAR   == <<"T", "E", "S", "T", "_", "V", "A", "R">>
PATH       == <<"P", "A", "T", "H">>
ValA       == <<"a">>
ValB       == <<"b">>

\* The ways a keyword can be written: left out, or given one of dom.
KwChoice(dom, default) ==
  {[given |-> FALSE, v |-> default]} \cup {[given |-> TRUE, v |-> x] : x \in dom}

\* The keyword sets over the value domains D (a record of sets, one per
\* field), written in one of the orders.
KwSet(D, orders) ==
  { [names |-> SelectSeq(ord, LAMBDA f : ch[f].given),
     vals  |-> [f \in DOMAIN ch |-> ch[f].v]] :
      ch \in [specs_dir : KwChoice(D.specs_dir, DefaultConfig.specs_dir),
              tags : KwChoice(D.tags, DefaultConfig.tags),
              in_parallel : KwChoice(D.in_parallel, DefaultConfig.in_parallel),
              nodes : KwChoice(D.nodes, DefaultConfig.nodes),
              env : KwChoice(D.env, DefaultConfig.env),
              additional_flags : KwChoice(D.additional_flags, DefaultConfig.additional_flags),
              project_dir : KwChoice(D.project_dir, DefaultConfig.project_dir),
              gauge_root : KwChoice(D.gauge_root, DefaultConfig.gauge_root),
              environment_variables :
                KwChoice(D.environment_variables, DefaultConfig.environment_variables)],
      ord \in orders }

Reversed(s) == [i \in 1..Len(s) |-> s[Len(s) + 1 - i]]

Rotated(s) == SubSeq(s, 4, Len(s)) \o SubSeq(s, 1, 3)

NoValues ==
  [specs_dir |-> {}, tags |-> {}, in_parallel |-> {}, nodes |-> {}, env |-> {},
   additional_flags |-> {}, project_dir |-> {}, gauge_root |-> {},
   environment_variables |-> {}]

ExitCodes == {-9} \cup (0..MaxExit)

Tools == {[spawns |-> FALSE, exit |-> 0]} \cup {[spawns |-> TRUE, exit |-> x] : x \in ExitCodes}

Dict1(k, v) == [x \in {k} |-> v]

InitWith(KW, ENVIRON, FILES, WHICH, TOOL) ==
  /\ kw \in KW
  /\ config = <<>>
  /\ environ \in ENVIRON
  /\ files \in FILES
  /\ which \in WHICH
  /\ getcwd = Home
  /\ tool \in TOOL
  /\ call = NoCall
  /\ tomlfile = NoFile
  /\ plugin = NoPlugin
  /\ host = NoHost

(***************************************************************************)
(* SpecArgs: construction and to_command_args over the fields it reads,    *)
(* with the keywords written in three orders.                              *)
(***************************************************************************)
ArgsValues ==
  [NoValues EXCEPT
     !.specs_dir = {None, Empty, SpecsDefault, RunCmd},
     !.tags = {Empty, Smoke, SpecsDefault},
     !.in_parallel = {TRUE, FALSE},
     !.nodes = ((-1)..MaxNodes) \cup {12},
     !.env = {Dev, SpecsDefault},
     !.additional_flags = {Empty, Blank, TwoFlags, SpecsFlag}]

InitArgs ==
  InitWith(KwSet(ArgsValues, {FieldNames, Reversed(FieldNames), Rotated(FieldNames)}),
           {EmptyDict}, {{}}, {UsrBin}, {[spawns |-> TRUE, exit |-> 0]})

NextArgs == Construct \/ ToCommandArgs

SpecArgs == InitArgs /\ [][NextArgs]_vars

(***************************************************************************)
(* Vocabulary of the properties.                                           *)
(***************************************************************************)
\* The value a field was constructed from: the keyword's when written, the
\* default otherwise.
Given(f) == \E i \in 1..Len(kw.names) : kw.names[i] = f

Supplied(f) == IF Given(f) THEN kw.vals[f] ELSE DefaultConfig[f]

\* An optional text is set: present and not empty.
IsSet(v) == v # None /\ Len(v) > 0

\* The maximal whitespace-free runs of s, left to right.
RunStarts(s) ==
  {i \in 1..Len(s) : s[i] \notin Whitespace /\ (i = 1 \/ s[i-1] \in Whitespace)}

RunEnd(s, i) ==
  CHOOSE j \in i..Len(s) :
    /\ \A k \in i..j : s[k] \notin Whitespace
    /\ j = Len(s) \/ s[j+1] \in Whitespace

MaximalRuns(s) ==
  [n \in 1..Cardinality(RunStarts(s)) |->
     LET i == CHOOSE x \in RunStarts(s) :
                Cardinality({y \in RunStarts(s) : y < x}) = n - 1
     IN  SubSeq(s, i, RunEnd(s, i))]

\* The number a decimal token denotes; -1 when it is no plain decimal.
DigitValue(ch) ==
  IF \E d \in 1..10 : Digits[d] = ch THEN (CHOOSE d \in 1..10 : Digits[d] = ch) - 1 ELSE -1

RECURSIVE DecimalValue(_)
DecimalValue(t) ==
  IF Len(t) = 0 \/ DigitValue(t[Len(t)]) < 0 THEN -1
  ELSE IF Len(t) = 1 THEN DigitValue(t[1])
  ELSE IF DecimalValue(SubSeq(t, 1, Len(t) - 1)) < 1 THEN -1
  ELSE 10 * DecimalValue(SubSeq(t, 1, Len(t) - 1)) + DigitValue(t[Len(t)])

TagsPart == IF IsSet(Supplied("tags")) THEN <<TagsFlag, Supplied("tags")>> ELSE <<>>

\* The parallel part, its count token read off the arguments at the place
\* where it has to stand.
ParallelPart(args) ==
  IF ~Supplied("in_parallel") THEN <<>>
  ELSE IF Supplied("nodes") > 1
         THEN LET at == Len(TagsPart) + 3
              IN  IF at <= Len(args) /\ DecimalValue(args[at]) = Supplied("nodes")
                    THEN <<ParallelFlag, NodesFlag, args[at]>>
                    ELSE <<ParallelFlag, NodesFlag, <<"?">>>>
         ELSE <<ParallelFlag>>

EnvPart == IF IsSet(Supplied("env")) THEN <<EnvFlag, Supplied("env")>> ELSE <<>>

FlagsPart ==
  IF IsSet(Supplied("additional_flags")) THEN MaximalRuns(Supplied("additional_flags"))
  ELSE <<>>

DirPart == IF IsSet(Supplied("specs_dir")) THEN <<Supplied("specs_dir")>> ELSE <<>>

(***************************************************************************)
(* Properties of SpecArgs.                                                 *)
(***************************************************************************)
\* C1: constructing a Configuration fails with the validation error exactly
\* when a nodes value below 1 is supplied; a failed construction leaves no
\* Configuration, and a Configuration that exists carries the supplied nodes
\* value unchanged (the default 1 when none was supplied).
ConstructionChecksNodes ==
  /\ (Given("nodes") /\ kw.vals.nodes < 1) => config = <<>>
  /\ config # <<>> => config[1].nodes = Supplied("nodes") /\ config[1].nodes >= 1
  /\ call.op = "construct" =>
       /\ call.outcome = "raised" <=> (Given("nodes") /\ kw.vals.nodes < 1)
       /\ call.outcome = "raised" => call.error = ErrValidation /\ config = <<>>
       /\ call.outcome = "returned" => Len(config) = 1

\* C1 witness: GaugeConfig(nodes=0) was tried and raised.
ConstructionRejectedZero ==
  /\ call.op = "construct" /\ call.outcome = "raised"
  /\ Given("nodes") /\ kw.vals.nodes = 0
  /\ config = <<>>

\* C2: to_command_args returns the tags pair, the parallel part (with the
\* decimal node count when nodes > 1), the env pair, the whitespace-separated
\* tokens of additional_flags and the specs directory, each only when its
\* field is set, in this order, whatever the order the keywords were written
\* in ("set" read as present and not empty).
ArgsFollowFixedOrder ==
  call.op = "to_command_args" =>
    call.args = TagsPart \o ParallelPart(call.args) \o EnvPart \o FlagsPart \o DirPart

\* C2 witness: all five parts present, the keywords not written in
\* declaration order.
ArgsAllPartsOutOfOrder ==
  /\ call.op = "to_command_args"
  /\ Len(kw.names) = 6 /\ kw.names[1] = "additional_flags"
  /\ Supplied("tags") = Smoke /\ Supplied("in_parallel") /\ Supplied("nodes") = 12
  /\ Supplied("env") = Dev /\ Supplied("additional_flags") = TwoFlags
  /\ Supplied("specs_dir") = SpecsDefault
  /\ Len(call.args) = 10

\* No field value brings a "--parallel" or "--n" token of its own.
NoFlagLookalike ==
  \A t \in {ParallelFlag, NodesFlag} :
    /\ Supplied("tags") # t /\ Supplied("env") # t /\ Supplied("specs_dir") # t
    /\ IsSet(Supplied("additional_flags")) =>
         \A i \in 1..Len(FlagsPart) : FlagsPart[i] # t

\* C3: "--parallel" is among the arguments iff in_parallel is true, and
\* "--n" iff in_parallel is true and nodes > 1, in which case it follows
\* "--parallel" and is followed by the decimal node count.
NodeCountIffParallelAndSeveral ==
  (call.op = "to_command_args" /\ NoFlagLookalike) =>
    /\ In(ParallelFlag, call.args) <=> config[1].in_parallel
    /\ In(NodesFlag, call.args) <=> (config[1].in_parallel /\ config[1].nodes > 1)
    /\ In(NodesFlag, call.args) =>
         \E i \in 1..(Len(call.args) - 2) :
           /\ call.args[i] = ParallelFlag
           /\ call.args[i+1] = NodesFlag
           /\ DecimalValue(call.args[i+2]) = config[1].nodes

\* C3 witness: in_parallel with nodes = 1 gave "--parallel" and no "--n".
ParallelWithOneNode ==
  /\ call.op = "to_command_args"
  /\ config[1].in_parallel /\ config[1].nodes = 1
  /\ In(ParallelFlag, call.args) /\ ~In(NodesFlag, call.args)

(***************************************************************************)
(* SpecRun: run(specs) over the fields to_command_args reads.              *)
(***************************************************************************)
RunValues ==
  [NoValues EXCEPT
     !.specs_dir = {None, Empty, SpecsDefault, RunCmd},
     !.tags = {Smoke, SpecsDefault},
     !.in_parallel = {TRUE},
     !.nodes = 0..MaxNodes,
     !.env = {Dev, SpecsDefault},
     !.additional_flags = {Blank, TwoFlags, SpecsFlag}]

SpecLists == {NoList, <<>>, <<ASpec>>, <<ASpec, BSpec>>, <<SpecsDefault>>}

InitRun ==
  InitWith(KwSet(RunValues, {FieldNames}),
           {EmptyDict}, {{}}, {UsrBin}, {[spawns |-> TRUE, exit |-> 0]})

NextRun ==
  \/ Construct
  \/ ToCommandArgs
  \/ \E specs \in SpecLists : Run(specs)

SpecRun == InitRun /\ [][NextRun]_vars

\* The first element of lst equal to x dropped, when there is one.
WithoutFirst(lst, x) ==
  IF \E i \in 1..Len(lst) : lst[i] = x
    THEN LET i == CHOOSE j \in 1..Len(lst) :
                    lst[j] = x /\ \A k \in 1..(j-1) : lst[k] # x
         IN  [n \in 1..(Len(lst) - 1) |-> IF n < i THEN lst[n] ELSE lst[n+1]]
    ELSE lst

\* The run was spawned with explicit specs.
RanExplicit == call.op = "run" /\ call.attempts = 1 /\ call.specs # NoList /\ Len(call.specs) > 0

\* The run was spawned without explicit specs.
RanPlain == call.op = "run" /\ call.attempts = 1 /\ (call.specs = NoList \/ Len(call.specs) = 0)

\* The arguments to_command_args gives for the configuration, by their parts.
PartsOf(c) ==
  [tags |-> IF IsSet(c.tags) THEN <<TagsFlag, c.tags>> ELSE <<>>,
   parallel |-> IF c.in_parallel
                  THEN IF c.nodes > 1 THEN <<ParallelFlag, NodesFlag, IntToStr(c.nodes)>>
                       ELSE <<ParallelFlag>>
                  ELSE <<>>,
   env |-> IF IsSet(c.env) THEN <<EnvFlag, c.env>> ELSE <<>>,
   flags |-> IF IsSet(c.additional_flags) THEN MaximalRuns(c.additional_flags) ELSE <<>>,
   dir |-> IF IsSet(c.specs_dir) THEN <<c.specs_dir>> ELSE <<>>]

FlagsOf(c) == PartsOf(c).tags \o PartsOf(c).parallel \o PartsOf(c).env \o PartsOf(c).flags

ArgsOf(c) == FlagsOf(c) \o PartsOf(c).dir

\* C4: run spawns [executable, "run"], then the arguments of
\* to_command_args, from which the first token equal to specs_dir is dropped
\* when explicit specs are given, then the explicit specs.
RunArgvRemovesFromArguments ==
  /\ RanExplicit =>
       call.argv = <<call.exe, RunCmd>>
                   \o WithoutFirst(ArgsOf(config[1]), config[1].specs_dir)
                   \o call.specs
  /\ RanPlain => call.argv = <<call.exe, RunCmd>> \o ArgsOf(config[1])

DirTokenIsFirstMatch ==
  \A t \in {call.exe, RunCmd} \cup {FlagsOf(config[1])[i] : i \in 1..Len(FlagsOf(config[1]))} :
    t # config[1].specs_dir

OptGaugeBin == OptGauge \o BinGauge

TaskValues ==
  [NoValues EXCEPT
     !.specs_dir = {None},
     !.project_dir = {Proj},
     !.gauge_root = {Empty, OptGauge, OptGaugeSl, OtherRoot}]

Init ==
  InitWith(KwSet(TaskValues, {FieldNames}),
           {EmptyDict, Dict1(PATH, ValA)}, SUBSET {OptGaugeBin}, {None, UsrBin}, Tools)

Next ==
  \/ Construct
  \/ \E specs \in {NoList, <<ASpec>>} : Run(specs)
  \/ Validate
  \/ FormatSpecs
  \/ \E version \in {None, Empty, V1} : InstallPlugin(Java, version)

Spec == Init /\ [][Next]_vars

TaskOps == {"run", "validate", "format_specs", "install_plugin"}

\* <root>/bin/gauge as a text, for a root with at most one closing slash.
UnderRoot(root) ==
  IF root[Len(root)] = "/" THEN root \o Tail(BinGauge) ELSE root \o BinGauge

\* gauge_root is set and <gauge_root>/bin/gauge exists.
RootBinExists ==
  /\ IsSet(config[1].gauge_root)
  /\ UnderRoot(config[1].gauge_root) \in files

\* C6: an operation resolves to <gauge_root>/bin/gauge, without a look at
\* the search path, when gauge_root is set and that file exists; otherwise
\* it looks at the search path and resolves to the gauge found there, if any.
ResolutionPrefersGaugeRoot ==
  call.op \in TaskOps =>
    IF RootBinExists
      THEN call.exe = UnderRoot(config[1].gauge_root) /\ call.searches = 0
      ELSE call.searches = 1 /\ (which # None => call.exe = which)

\* C6 witness: both the file under gauge_root and a gauge on the search
\* path exist, and the one under gauge_root was taken.
ResolvedUnderRootDespitePath ==
  /\ call.op = "validate" /\ RootBinExists /\ which = UsrBin
  /\ call.exe = OptGaugeBin /\ call.searches = 0 /\ call.argv[1] = OptGaugeBin

\* C7: with no <gauge_root>/bin/gauge and no gauge on the search path, each
\* operation raises the not-found error, having searched once and spawned
\* nothing.
NotFoundRaisesBeforeSpawn ==
  (call.op \in TaskOps /\ ~RootBinExists /\ which = None) =>
    /\ call.outcome = "raised" /\ call.error = ErrNotFound
    /\ call.attempts = 0 /\ call.argv = <<>>
    /\ call.searches = 1

\* C7 witness: install_plugin raised the not-found error although
\* gauge_root was set (its bin/gauge missing).
InstallRaisedNotFound ==
  /\ call.op = "install_plugin" /\ call.outcome = "raised" /\ call.error = ErrNotFound
  /\ config[1].gauge_root = OptGauge /\ files = {} /\ which = None
  /\ call.attempts = 0

\* C8: an operation whose subprocess ran to completion returns, and returns
\* true exactly when the exit code is 0.
ExitCodeDecidesResult ==
  (call.op \in TaskOps /\ call.completed = 1) =>
    /\ call.outcome = "returned" /\ call.error = "none"
    /\ call.returncode = tool.exit
    /\ call.value <=> (tool.exit = 0)

\* C8 witness: validate returned false on exit code 1.
ValidateFalseOnExitOne ==
  /\ call.op = "validate" /\ call.completed = 1 /\ tool.exit = 1
  /\ call.outcome = "returned" /\ call.value = FALSE

(***************************************************************************)
(* SpecEnv: get_environment over gauge_root, environment_variables and     *)
(* the ambient environment.                                                *)
(***************************************************************************)
EnvKeys == {PATH, GAUGE_ROOT, TEST_VAR}

Environs == UNION {[S -> {ValA, OtherRoot}] : S \in SUBSET EnvKeys}

EnvValues ==
  [NoValues EXCEPT
     !.gauge_root = {Empty, OptGauge},
     !.environment_variables =
        {Dict1(TEST_VAR, ValB), Dict1(GAUGE_ROOT, ValB),
         [k \in {PATH, GAUGE_ROOT} |-> ValB]}]

InitEnv ==
  InitWith(KwSet(EnvValues, {FieldNames}),
           Environs, {{}}, {UsrBin}, {[spawns |-> TRUE, exit |-> 0]})

NextEnv == Construct \/ GetEnvironment

SpecEnv == InitEnv /\ [][NextEnv]_vars

\* C9: get_environment maps every key of environment_variables to its
\* configured value, also over an ambient variable and over the GAUGE_ROOT
\* taken from gauge_root; a key that is neither configured nor the GAUGE_ROOT
\* of a set gauge_root has its ambient value; no other key appears.
ConfiguredVariablesWin ==
  call.op = "get_environment" =>
    LET c    == config[1]
        ev   == c.environment_variables
        out  == call.env
        root == IF IsSet(c.gauge_root) THEN {GAUGE_ROOT} ELSE {}
    IN  /\ \A k \in DOMAIN ev : k \in DOMAIN out /\ out[k] = ev[k]
        /\ \A k \in ((DOMAIN environ) \cup (DOMAIN out)) \ ((DOMAIN ev) \cup root) :
             k \in DOMAIN environ /\ k \in DOMAIN out /\ out[k] = environ[k]
        /\ DOMAIN out \subseteq (DOMAIN environ) \cup (DOMAIN ev) \cup root

\* C9 witness: GAUGE_ROOT is defined by the ambient environment, by
\* gauge_root and by environment_variables, and the last one's value came out.
ConfiguredRootBeatsBoth ==
  /\ call.op = "get_environment"
  /\ config[1].gauge_root = OptGauge
  /\ GAUGE_ROOT \in DOMAIN environ /\ environ[GAUGE_ROOT] = OtherRoot
  /\ GAUGE_ROOT \in DOMAIN config[1].environment_variables
  /\ call.env[GAUGE_ROOT] = ValB

\* C10 as claimed: the returned mapping has the key GAUGE_ROOT iff
\* gauge_root is set, and its value is gauge_root unless
\* environment_variables has the key.
GaugeRootKeyIffSet ==
  call.op = "get_environment" =>
    /\ GAUGE_ROOT \in DOMAIN call.env <=> IsSet(config[1].gauge_root)
    /\ (IsSet(config[1].gauge_root)
        /\ GAUGE_ROOT \notin DOMAIN config[1].environment_variables)
         => call.env[GAUGE_ROOT] = config[1].gauge_root

\* C10 amended: the returned mapping has the key GAUGE_ROOT iff gauge_root
\* is set (not empty), or the ambient environment or environment_variables
\* defines it; with gauge_root set and no such key in environment_variables
\* its value is gauge_root.
GaugeRootKeyIffSetOrInherited ==
  call.op = "get_environment" =>
    /\ GAUGE_ROOT \in DOMAIN call.env <=>
         \/ IsSet(config[1].gauge_root)
         \/ GAUGE_ROOT \in DOMAIN environ
         \/ GAUGE_ROOT \in DOMAIN config[1].environment_variables
    /\ (IsSet(config[1].gauge_root)
        /\ GAUGE_ROOT \notin DOMAIN config[1].environment_variables)
         => call.env[GAUGE_ROOT] = config[1].gauge_root

\* C10 witness: gauge_root unset, GAUGE_ROOT inherited from the ambient
\* environment.
InheritedRootKept ==
  /\ call.op = "get_environment"
  /\ config[1].gauge_root = None
  /\ GAUGE_ROOT \notin DOMAIN config[1].environment_variables
  /\ GAUGE_ROOT \in DOMAIN environ
  /\ GAUGE_ROOT \in DOMAIN call.env /\ call.env[GAUGE_ROOT] = environ[GAUGE_ROOT]

(***************************************************************************)
(* SpecOps: validate, format_specs and install_plugin over the fields      *)
(* to_command_args reads.                                                  *)
(***************************************************************************)
NextOps ==
  \/ Construct
  \/ Validate
  \/ FormatSpecs
  \/ \E plugin_name \in {Java, SpecsDefault}, version \in {None, Empty, V1} :
       InstallPlugin(plugin_name, version)

SpecOps == InitRun /\ [][NextOps]_vars

\* C11: validate spawns [executable, "validate"] and format_specs spawns
\* [executable, "format"], each followed by specs_dir alone when it is set;
\* nothing of tags, in_parallel, nodes, env or additional_flags is in either.
ValidateAndFormatTakeOnlyDir ==
  /\ (call.op = "validate" /\ call.attempts = 1) =>
       call.argv = <<call.exe, ValidateCmd>> \o PartsOf(config[1]).dir
  /\ (call.op = "format_specs" /\ call.attempts = 1) =>
       call.argv = <<call.exe, FormatCmd>> \o PartsOf(config[1]).dir

\* C11 witness: validate ran under a configuration with tags, a node count,
\* env and additional flags, and spawned three tokens.
ValidateIgnoredFlags ==
  /\ call.op = "validate" /\ call.attempts = 1
  /\ config[1].tags = Smoke /\ config[1].in_parallel /\ config[1].nodes = 2
  /\ config[1].env = Dev /\ config[1].additional_flags = TwoFlags
  /\ call.argv = <<UsrBin, ValidateCmd, SpecsDefault>>

\* C12: install_plugin spawns [executable, "install", name], followed by
\* ["--version", version] exactly when a non-empty version is given; nothing
\* of the configuration is in it.
InstallArgvNameAndVersion ==
  (call.op = "install_plugin" /\ call.attempts = 1) =>
    call.argv = <<call.exe, InstallCmd, call.plugin>>
                \o (IF IsSet(call.version) THEN <<VersionFlag, call.version>> ELSE <<>>)

\* C12 witness: an install with an empty version under a configuration with
\* a specs directory and flags spawned three tokens.
InstallOmittedEmptyVersion ==
  /\ call.op = "install_plugin" /\ call.attempts = 1
  /\ call.version = Empty /\ call.plugin = Java
  /\ config[1].specs_dir = SpecsDefault /\ config[1].tags = Smoke
  /\ config[1].additional_flags = TwoFlags
  /\ call.argv = <<UsrBin, InstallCmd, Java>>


(***************************************************************************)
(* GaugePlugin: the facade that loads a configuration file and creates     *)
(* tasks.                                                                  *)
(*                                                                         *)
(* tomlfile is the file at the path handed to GaugePlugin: whether it      *)
(* exists, whether toml.load and the descent into data['tool'] get through *)
(* it (malformed when they do not), and the tables [tool.gauge] and        *)
(* [gauge] it holds, each <<>> when absent. A table is the sequence of its *)
(* keys as they are written in the file and the value of each.             *)
(***************************************************************************)
ErrDecode == "TomlDecodeError"

\* GaugeConfig(**table): pydantic ignores a keyword that names no field, so
\* only the keys spelt as a field name are keywords of the construction.
TableKw(t) ==
  [names |-> SelectSeq(t.keys, LAMBDA k : In(k, FieldNames)), vals |-> t.vals]

\* data.get('tool', {}).get('gauge', {})
gauge_config(file) ==
  IF file.tool_gauge = <<>> THEN [keys |-> <<>>, vals |-> EmptyDict]
  ELSE file.tool_gauge[1]

\* _load_config with the existence test left out.
LoadConfigWithoutExists(config_file, file) ==
  IF Truthy(config_file)
    THEN IF file.malformed \/ ~file.exists
           THEN [outcome |-> "raised", error |-> ErrDecode, config |-> <<>>]
           ELSE LET k == TableKw(gauge_config(file))
                IN  IF ConstructOk(k)
                      THEN [outcome |-> "returned", error |-> "none",
                            config |-> <<ConstructValue(k)>>]
                      ELSE [outcome |-> "raised", error |-> ErrValidation,
                            config |-> <<>>]
    ELSE [outcome |-> "returned", error |-> "none", config |-> <<DefaultConfig>>]

\* GaugePlugin._load_config. Nothing in it catches: a file toml.load cannot
\* read, and a table GaugeConfig rejects, raise out of the constructor.
load_config(config_file, file) ==
  IF Truthy(config_file) /\ file.exists
    THEN IF file.malformed
           THEN [outcome |-> "raised", error |-> ErrDecode, config |-> <<>>]
           ELSE LET k == TableKw(gauge_config(file))
                IN  IF ConstructOk(k)
                      THEN [outcome |-> "returned", error |-> "none",
                            config |-> <<ConstructValue(k)>>]
                      ELSE [outcome |-> "raised", error |-> ErrValidation,
                            config |-> <<>>]
    ELSE [outcome |-> "returned", error |-> "none", config |-> <<DefaultConfig>>]

\* An override mapping is <<>> for None, or <<d>> for the dict d, written as
\* the keywords are. `if config_override:` holds for a dict with a key.
OverrideGiven(ov) == ov # <<>> /\ ov[1].names # <<>>

\* config.dict() then update(config_override): every field is a keyword of
\* the new construction, with the override's value where it names the field.
MergedKw(c, d) ==
  [names |-> FieldNames,
   vals  |-> [f \in DOMAIN c |-> IF In(f, d.names) THEN d.vals[f] ELSE c[f]]]

\* create_task that builds a fresh GaugeConfig() when nothing is overridden.
CreateTaskFromDefaults(c, ov) ==
  IF OverrideGiven(ov)
    THEN LET k == MergedKw(c, ov[1])
         IN  IF ConstructOk(k) THEN <<ConstructValue(k)>> ELSE <<>>
    ELSE <<DefaultConfig>>

\* create_task that merges environment_variables key by key.
CreateTaskDeepMerge(c, ov) ==
  IF OverrideGiven(ov)
    THEN LET k == MergedKw(c, ov[1])
             v == IF In("environment_variables", ov[1].names)
                    THEN [ConstructValue(k) EXCEPT !.environment_variables =
                            DictUpdate(c.environment_variables, @)]
                    ELSE ConstructValue(k)
         IN  IF ConstructOk(k) THEN <<v>> ELSE <<>>
    ELSE <<c>>

\* GaugePlugin.create_task: the configuration of the task it returns, <<>>
\* when GaugeConfig raises.
create_task(c, ov) ==
  IF OverrideGiven(ov)
    THEN LET k == MergedKw(c, ov[1])
         IN  IF ConstructOk(k) THEN <<ConstructValue(k)>> ELSE <<>>
    ELSE <<c>>


\* GaugePlugin(config_file)
LoadPlugin ==
  /\ plugin.state = "none"
  /\ LET r == load_config(plugin.config_file, tomlfile)
     IN  /\ plugin' = [plugin EXCEPT
                         !.state = IF r.outcome = "returned" THEN "loaded" ELSE "failed",
                         !.config = r.config, !.error = r.error]
         /\ call' = [NoCall EXCEPT !.op = "load", !.outcome = r.outcome,
                                   !.error = r.error]
  /\ UNCHANGED <<kw, config, ambient, tomlfile, host>>

\* plugin.create_task(config_override)
CreateTask(ov) ==
  /\ plugin.state = "loaded"
  /\ LET t == create_task(plugin.config[1], ov)
     IN  /\ config' = t
         /\ call' = IF t = <<>>
                      THEN [NoCall EXCEPT !.op = "create_task", !.outcome = "raised",
                                          !.error = ErrValidation]
                      ELSE [NoCall EXCEPT !.op = "create_task", !.outcome = "returned"]
  /\ host' = [host EXCEPT !.override = ov]
  /\ UNCHANGED <<kw, ambient, tomlfile, plugin>>

\* What task.<operation>() of the task create_task returned gives: t is the
\* task's configuration, <<>> when create_task raised; op names the facade's
\* method, sub the subcommand its command starts with.
ConvenienceCall(op, sub, t) ==
  IF t = <<>>
    THEN [NoCall EXCEPT !.op = op, !.outcome = "raised", !.error = ErrValidation]
    ELSE LET found == find_gauge_executable(t[1], files, which)
         IN  Executed([NoCall EXCEPT !.op = op], t[1], found,
                      CASE sub = RunCmd -> run_command(t[1], found.exe, NoList)
                        [] sub = ValidateCmd -> validate_command(t[1], found.exe)
                        [] sub = FormatCmd -> format_command(t[1], found.exe))

\* plugin.run_specs(**kwargs)
PluginRunSpecs(d) ==
  /\ plugin.state = "loaded"
  /\ config' = create_task(plugin.config[1], <<d>>)
  /\ call' = ConvenienceCall("run_specs", RunCmd, create_task(plugin.config[1], <<d>>))
  /\ host' = [host EXCEPT !.override = <<d>>]
  /\ UNCHANGED <<kw, ambient, tomlfile, plugin>>

\* plugin.validate_project(**kwargs)
PluginValidateProject(d) ==
  /\ plugin.state = "loaded"
  /\ config' = create_task(plugin.config[1], <<d>>)
  /\ call' = ConvenienceCall("validate_project", ValidateCmd,
                             create_task(plugin.config[1], <<d>>))
  /\ host' = [host EXCEPT !.override = <<d>>]
  /\ UNCHANGED <<kw, ambient, tomlfile, plugin>>

\* plugin.format_specs(**kwargs)
PluginFormatSpecs(d) ==
  /\ plugin.state = "loaded"
  /\ config' = create_task(plugin.config[1], <<d>>)
  /\ call' = ConvenienceCall("plugin_format_specs", FormatCmd,
                             create_task(plugin.config[1], <<d>>))
  /\ host' = [host EXCEPT !.override = <<d>>]
  /\ UNCHANGED <<kw, ambient, tomlfile, plugin>>

(***************************************************************************)
(* The facade over a configuration file, with overrides.                   *)
(***************************************************************************)
PyProject == <<"p", "y", "p", "r", "o", "j", "e", "c", "t", ".", "t", "o", "m", "l">>
Custom    == <<"c", "u", "s", "t", "o", "m">>

\* [tool.gauge] of tests/conftest.py, in short: snake keys.
TSnake ==
  [keys |-> <<"specs_dir", "nodes", "environment_variables">>,
   vals |-> [specs_dir |-> Custom, nodes |-> 2,
             environment_variables |-> [k \in {TEST_VAR, PATH} |-> ValA]]]

TKebab ==
  [keys |-> <<"specs-dir", "tags">>,
   vals |-> ("specs-dir" :> Custom) @@ ("tags" :> Smoke)]

TZero == [keys |-> <<"nodes">>, vals |-> [nodes |-> 0]]

TEmpty == [keys |-> <<>>, vals |-> EmptyDict]

TomlFiles ==
  {NoFile, [NoFile EXCEPT !.exists = TRUE, !.malformed = TRUE]}
  \cup {[exists |-> TRUE, malformed |-> FALSE, has_tool |-> (tg # <<>>) \/ h,
         tool_gauge |-> tg, gauge |-> g] :
          tg \in {<<>>, <<TSnake>>, <<TKebab>>, <<TZero>>, <<TEmpty>>},
          g \in {<<>>, <<TSnake>>}, h \in BOOLEAN}

NoOverride == [names |-> <<>>, vals |-> EmptyDict]

OverrideDicts ==
  {NoOverride,
   [names |-> <<"nodes">>, vals |-> [nodes |-> 0]],
   [names |-> <<"nodes", "in_parallel">>, vals |-> [nodes |-> MaxNodes, in_parallel |-> TRUE]],
   [names |-> <<"environment_variables">>,
    vals |-> [environment_variables |-> Dict1(GAUGE_ROOT, ValB)]],
   [names |-> <<"tags", "specs_dir">>, vals |-> [tags |-> Smoke, specs_dir |-> None]]}

FacadeValues == [NoValues EXCEPT !.nodes = {0, 2}]

InitFacade ==
  /\ kw \in KwSet(FacadeValues, {FieldNames})
  /\ config = <<>>
  /\ environ = EmptyDict
  /\ files = {}
  /\ which \in {None, UsrBin}
  /\ getcwd = Home
  /\ tool \in {[spawns |-> FALSE, exit |-> 0], [spawns |-> TRUE, exit |-> 0],
               [spawns |-> TRUE, exit |-> 1]}
  /\ call = NoCall
  /\ tomlfile \in TomlFiles
  /\ plugin \in {[NoPlugin EXCEPT !.config_file = f] : f \in {None, Empty, PyProject}}
  /\ host = NoHost

NextFacade ==
  \/ Construct
  \/ LoadPlugin
  \/ \E ov \in {<<>>} \cup {<<d>> : d \in OverrideDicts} : CreateTask(ov)
  \/ \E d \in OverrideDicts : PluginRunSpecs(d)
  \/ \E d \in OverrideDicts : PluginValidateProject(d)
  \/ \E d \in OverrideDicts : PluginFormatSpecs(d)

SpecFacade == InitFacade /\ [][NextFacade]_vars


FacadeOps == {"create_task", "run_specs", "validate_project", "plugin_format_specs"}

\* C13: create_task with None or with an empty mapping (and each convenience
\* method called without keywords) returns, and the task's configuration is
\* field for field the one the facade loaded, whatever was called before.
NoOverrideKeepsLoaded ==
  (call.op \in FacadeOps /\ ~OverrideGiven(host.override)) =>
     /\ call.op = "create_task" => call.outcome = "returned"
     /\ config # <<>>
     /\ \A f \in DOMAIN DefaultConfig : config[1][f] = plugin.config[1][f]

\* C13 witness: create_task({}) on a facade that loaded other values than
\* the defaults.
CreatedWithEmptyOverride ==
  /\ call.op = "create_task"
  /\ host.override = <<NoOverride>>
  /\ plugin.config[1].specs_dir = Custom
  /\ config[1].specs_dir = Custom
  /\ config[1].nodes = 2

\* C14: with a non-empty override every field the override names has the
\* override's value and every other field the loaded value; a named
\* environment_variables is the override's mapping, whole.
OverrideMergeIsShallow ==
  (call.op \in FacadeOps /\ OverrideGiven(host.override) /\ config # <<>>) =>
     \A f \in DOMAIN DefaultConfig :
        config[1][f] = IF In(f, host.override[1].names)
                         THEN host.override[1].vals[f]
                         ELSE plugin.config[1][f]

\* C14 witness: the loaded mapping has TEST_VAR and PATH, the override has
\* GAUGE_ROOT, and the task's mapping has GAUGE_ROOT alone.
OverrideReplacedEnvironment ==
  /\ call.op = "create_task"
  /\ OverrideGiven(host.override)
  /\ host.override[1].names = <<"environment_variables">>
  /\ DOMAIN plugin.config[1].environment_variables = {TEST_VAR, PATH}
  /\ DOMAIN config[1].environment_variables = {GAUGE_ROOT}
  /\ config[1].specs_dir = Custom

\* The table GaugePlugin reads gives nodes a value below 1.
FileNodesBelowOne ==
  /\ Truthy(plugin.config_file) /\ tomlfile.exists /\ ~tomlfile.malformed
  /\ tomlfile.tool_gauge # <<>>
  /\ In("nodes", tomlfile.tool_gauge[1].keys)
  /\ tomlfile.tool_gauge[1].vals["nodes"] < 1

\* C15: every configuration there is (the one last constructed, the one the
\* facade loaded) has nodes >= 1; an override with nodes < 1 makes the call
\* raise before any task exists, and a file with nodes < 1 makes GaugePlugin
\* raise.
NodesAtLeastOne ==
  /\ config # <<>> => config[1].nodes >= 1
  /\ plugin.config # <<>> => plugin.config[1].nodes >= 1
  /\ (/\ call.op \in FacadeOps
      /\ OverrideGiven(host.override)
      /\ In("nodes", host.override[1].names)
      /\ host.override[1].vals.nodes < 1)
       => /\ config = <<>>
          /\ call.outcome = "raised" /\ call.error = ErrValidation
          /\ call.searches = 0 /\ call.attempts = 0
  /\ (plugin.state # "none" /\ FileNodesBelowOne)
       => plugin.state = "failed" /\ plugin.config = <<>>
  /\ (call.op = "construct" /\ In("nodes", kw.names) /\ kw.vals.nodes < 1)
       => config = <<>> /\ call.outcome = "raised"

\* C15 witness: run_specs(nodes=0) on a facade that loaded nodes = 2 raised.
OverrideZeroNodesRaised ==
  /\ call.op = "run_specs"
  /\ plugin.config[1].nodes = 2
  /\ host.override[1].names = <<"nodes">>
  /\ host.override[1].vals.nodes = 0
  /\ call.outcome = "raised"
  /\ config = <<>>

\* C16: a file that exists and cannot be loaded, or whose values are
\* rejected, leaves a facade with the default configuration.
LoadFailureDegradesToDefault ==
  (/\ plugin.state # "none"
   /\ Truthy(plugin.config_file) /\ tomlfile.exists
   /\ tomlfile.malformed \/ FileNodesBelowOne)
    => plugin.state = "loaded" /\ plugin.config = <<DefaultConfig>>

\* C17: no path (None or empty), a path to no file, or a file without a
\* gauge table: GaugePlugin returns and holds exactly the defaults.
AbsentFileOrSectionGivesDefault ==
  (/\ plugin.state # "none"
   /\ \/ ~Truthy(plugin.config_file)
      \/ ~tomlfile.exists
      \/ ~tomlfile.malformed /\ tomlfile.tool_gauge = <<>> /\ tomlfile.gauge = <<>>)
    => /\ plugin.state = "loaded"
       /\ plugin.error = "none"
       /\ plugin.config = <<DefaultConfig>>

\* C17 witness: the file exists and has a [tool] table without gauge.
LoadedFileWithoutSection ==
  /\ plugin.state = "loaded"
  /\ plugin.config_file = PyProject
  /\ tomlfile.exists /\ tomlfile.has_tool
  /\ tomlfile.tool_gauge = <<>> /\ tomlfile.gauge = <<>>
  /\ plugin.config = <<DefaultConfig>>

\* The kebab spelling of each field name.
KebabName ==
  [specs_dir |-> "specs-dir", tags |-> "tags", in_parallel |-> "in-parallel",
   nodes |-> "nodes", env |-> "env", additional_flags |-> "additional-flags",
   project_dir |-> "project-dir", gauge_root |-> "gauge-root",
   environment_variables |-> "environment-variables"]

\* The field a key of a table names, in either spelling; the key itself when
\* it names none.
FieldOf(k) ==
  IF \E f \in DOMAIN KebabName : KebabName[f] = k
    THEN CHOOSE f \in DOMAIN KebabName : KebabName[f] = k
    ELSE k

\* C18: the loaded configuration has the file's value for every field given,
\* in snake or kebab spelling, in [tool.gauge] or, without it, in [gauge].
FileFieldsReachConfiguration ==
  (/\ plugin.state = "loaded"
   /\ Truthy(plugin.config_file) /\ tomlfile.exists)
    => LET t == IF tomlfile.tool_gauge # <<>> THEN tomlfile.tool_gauge[1]
                ELSE IF tomlfile.gauge # <<>> THEN tomlfile.gauge[1]
                ELSE TEmpty
       IN  \A i \in 1..Len(t.keys) :
              FieldOf(t.keys[i]) \in DOMAIN DefaultConfig =>
                plugin.config[1][FieldOf(t.keys[i])] = t.vals[t.keys[i]]


\* build_config_dict that leaves out an option holding its default, as a
\* test of truthiness would.
BuildConfigDictSkipsDefaults(ctx, order, opts) ==
  LET g1 == IF Truthy(ctx.project_dir) THEN <<"project_dir">> ELSE <<>>
      g2 == IF Truthy(ctx.gauge_root) THEN Append(g1, "gauge_root") ELSE g1
      names == g2 \o SelectSeq(order, LAMBDA k :
                       /\ opts[k] # <<>>
                       /\ ~(k = "specs_dir" /\ opts[k][1] = SpecsDefault)
                       /\ ~(k = "in_parallel" /\ opts[k][1] = FALSE)
                       /\ ~(k = "nodes" /\ opts[k][1] = 1))
  IN  [names |-> names,
       vals  |-> [f \in {names[i] : i \in 1..Len(names)} |->
                    IF f \in DOMAIN opts /\ In(f, order) THEN opts[f][1]
                    ELSE IF f = "project_dir" THEN ctx.project_dir
                    ELSE ctx.gauge_root]]

(***************************************************************************)
(* cli.py: one process is one command line. ctx holds the group's options  *)
(* (config_file, project_dir, gauge_root, each None when not given), opts  *)
(* the subcommand's, each <<>> for None or <<value>>.                      *)
(***************************************************************************)
\* build_config_dict(ctx, **kwargs): the two global options when truthy,
\* then every keyword that is not None, in the order order.
build_config_dict(ctx, order, opts) ==
  LET g1 == IF Truthy(ctx.project_dir) THEN <<"project_dir">> ELSE <<>>
      g2 == IF Truthy(ctx.gauge_root) THEN Append(g1, "gauge_root") ELSE g1
      names == g2 \o SelectSeq(order, LAMBDA k : opts[k] # <<>>)
  IN  [names |-> names,
       vals  |-> [f \in {names[i] : i \in 1..Len(names)} |->
                    IF f \in DOMAIN opts /\ In(f, order) THEN opts[f][1]
                    ELSE IF f = "project_dir" THEN ctx.project_dir
                    ELSE ctx.gauge_root]]

\* The exit code when a returned operation always counts as success.
ExitCodeIgnoresFalse(c) == IF c.outcome = "returned" THEN 0 ELSE 1

\* The end of a subcommand: it returns after a true result (click exits 0),
\* sys.exit(1) after a false one, and sys.exit(1) in `except Exception`.
ExitCode(c) == IF c.outcome = "returned" /\ c.value THEN 0 ELSE 1

\* The file a path names for a process whose working directory is cwd.
resolve(cwd, path) ==
  IF path # <<>> /\ path[1] = "/" THEN path ELSE cwd \o <<"/">> \o path

\* tomlfile is the file the --config path names in the directory of the
\* start; this is the file of the same relative path under the project
\* directory, when there is one.
ProjectToml ==
  [exists |-> TRUE, malformed |-> FALSE, has_tool |-> TRUE,
   tool_gauge |-> <<TKebab>>, gauge |-> <<>>]

\* The file GaugePlugin(config_file) opens: the subcommand runs after the
\* group callback, so a relative path is resolved in the directory
\* os.chdir(project_dir) has moved the process to.
opened_file(ctx) ==
  IF ~Truthy(ctx.config_file) THEN tomlfile
  ELSE LET after == IF Truthy(ctx.project_dir)
                      THEN resolve(getcwd, ctx.project_dir) ELSE getcwd
       IN  IF resolve(after, ctx.config_file) = resolve(getcwd, ctx.config_file)
             THEN tomlfile
           ELSE IF resolve(after, ctx.config_file) \in files THEN ProjectToml
           ELSE NoFile

\* The body of a subcommand up to the result: create_gauge_plugin(ctx),
\* plugin.create_task(config_dict), then the task's operation, whose call
\* record starts as base.
Subcommand(ctx, d, base, sub) ==
  LET r == load_config(ctx.config_file, opened_file(ctx))
      p == [config_file |-> ctx.config_file,
            state |-> IF r.outcome = "returned" THEN "loaded" ELSE "failed",
            config |-> r.config, error |-> r.error]
      t == IF r.config = <<>> THEN <<>> ELSE create_task(r.config[1], <<d>>)
  IN  IF r.outcome = "raised"
        THEN [plugin |-> p, config |-> <<>>,
              call |-> [NoCall EXCEPT !.op = "load", !.outcome = "raised",
                                      !.error = r.error]]
      ELSE IF t = <<>>
        THEN [plugin |-> p, config |-> <<>>,
              call |-> [NoCall EXCEPT !.op = "create_task", !.outcome = "raised",
                                      !.error = ErrValidation]]
      ELSE LET found == find_gauge_executable(t[1], files, which)
           IN  [plugin |-> p, config |-> t,
                call |-> Executed(base, t[1], found,
                           CASE sub = RunCmd -> run_command(t[1], found.exe, base.specs)
                             [] sub = ValidateCmd -> validate_command(t[1], found.exe)
                             [] sub = FormatCmd -> format_command(t[1], found.exe)
                             [] sub = InstallCmd ->
                                  install_command(found.exe, base.plugin, base.version))]

\* The group callback: os.chdir(project_dir) when the option is given; the
\* path is taken as it was written, relative to the directory of the start.
chdir(cwd, project_dir) ==
  IF Truthy(project_dir)
    THEN IF project_dir[1] = "/" THEN project_dir ELSE cwd \o <<"/">> \o project_dir
    ELSE cwd

\* The message a subcommand ends with: success, failure, or the error of
\* `except Exception` (the --verbose lines are left out).
ResultEcho(c) ==
  IF c.outcome = "returned"
    THEN IF c.value THEN <<"completed successfully">> ELSE <<"failed">>
    ELSE <<"Error", c.error>>

RunOrder == <<"specs_dir", "tags", "in_parallel", "nodes", "env", "additional_flags">>

\* gauge-py [options] run [options] [specs...]
CliRun(ctx, opts, specs) ==
  /\ host.cmd = "none" /\ plugin.state = "none" /\ call.op = "none"
  /\ LET d == build_config_dict(ctx, RunOrder, opts)
         r == Subcommand(ctx, d,
                [NoCall EXCEPT !.op = "run",
                               !.specs = IF specs # <<>> THEN specs ELSE NoList],
                RunCmd)
     IN  /\ plugin' = r.plugin
         /\ config' = r.config
         /\ call' = r.call
         /\ host' = [cmd |-> "run", override |-> <<d>>, exit |-> ExitCode(r.call),
                     echo |-> ResultEcho(r.call), tasks |-> <<>>,
                     options |-> <<opts>>]
  /\ getcwd' = chdir(getcwd, ctx.project_dir)
  /\ UNCHANGED <<kw, environ, files, which, tool, tomlfile>>

\* gauge-py [options] validate [--specs-dir D]
CliValidate(ctx, opts) ==
  /\ host.cmd = "none" /\ plugin.state = "none" /\ call.op = "none"
  /\ LET d == build_config_dict(ctx, <<"specs_dir">>, opts)
         r == Subcommand(ctx, d, [NoCall EXCEPT !.op = "validate"], ValidateCmd)
     IN  /\ plugin' = r.plugin
         /\ config' = r.config
         /\ call' = r.call
         /\ host' = [cmd |-> "validate", override |-> <<d>>, exit |-> ExitCode(r.call),
                     echo |-> ResultEcho(r.call), tasks |-> <<>>,
                     options |-> <<opts>>]
  /\ getcwd' = chdir(getcwd, ctx.project_dir)
  /\ UNCHANGED <<kw, environ, files, which, tool, tomlfile>>

\* gauge-py [options] format [--specs-dir D]
CliFormat(ctx, opts) ==
  /\ host.cmd = "none" /\ plugin.state = "none" /\ call.op = "none"
  /\ LET d == build_config_dict(ctx, <<"specs_dir">>, opts)
         r == Subcommand(ctx, d, [NoCall EXCEPT !.op = "format_specs"], FormatCmd)
     IN  /\ plugin' = r.plugin
         /\ config' = r.config
         /\ call' = r.call
         /\ host' = [cmd |-> "format", override |-> <<d>>, exit |-> ExitCode(r.call),
                     echo |-> ResultEcho(r.call), tasks |-> <<>>,
                     options |-> <<opts>>]
  /\ getcwd' = chdir(getcwd, ctx.project_dir)
  /\ UNCHANGED <<kw, environ, files, which, tool, tomlfile>>

\* gauge-py [options] install PLUGIN_NAME [--version V]
CliInstall(ctx, plugin_name, version) ==
  /\ host.cmd = "none" /\ plugin.state = "none" /\ call.op = "none"
  /\ LET d == build_config_dict(ctx, <<>>, EmptyDict)
         r == Subcommand(ctx, d,
                [NoCall EXCEPT !.op = "install_plugin", !.plugin = plugin_name,
                               !.version = version],
                InstallCmd)
     IN  /\ plugin' = r.plugin
         /\ config' = r.config
         /\ call' = r.call
         /\ host' = [cmd |-> "install", override |-> <<d>>, exit |-> ExitCode(r.call),
                     echo |-> ResultEcho(r.call), tasks |-> <<>>,
                     options |-> <<>>]
  /\ getcwd' = chdir(getcwd, ctx.project_dir)
  /\ UNCHANGED <<kw, environ, files, which, tool, tomlfile>>


(***************************************************************************)
(* The command line over a configuration file that exists (click checks    *)
(* the path of --config before any subcommand runs).                       *)
(***************************************************************************)
CliFiles == {f \in TomlFiles : f.exists /\ f.gauge = <<>>}

Contexts ==
  [config_file : {None, PyProject}, project_dir : {None, Proj},
   gauge_root : {None, OptGauge}]

RunOptions ==
  [specs_dir : {<<SpecsDefault>>, <<Custom>>}, tags : {<<>>, <<Smoke>>},
   in_parallel : {<<FALSE>>, <<TRUE>>}, nodes : {<<n>> : n \in 0..2},
   env : {<<>>}, additional_flags : {<<>>}]

DirOptions == [specs_dir : {<<SpecsDefault>>, <<Custom>>}]

InitCli ==
  /\ kw \in KwSet(NoValues, {FieldNames})
  /\ config = <<>>
  /\ environ = EmptyDict
  /\ files \in SUBSET {OptGaugeBin}
  /\ which \in {None, UsrBin}
  /\ getcwd = Home
  /\ tool \in {[spawns |-> FALSE, exit |-> 0]}
               \cup {[spawns |-> TRUE, exit |-> x] : x \in 0..MaxExit}
  /\ call = NoCall
  /\ tomlfile \in CliFiles
  /\ plugin = NoPlugin
  /\ host = NoHost

NextCli ==
  \/ \E ctx \in Contexts, opts \in RunOptions, specs \in {<<>>, <<ASpec>>} :
        CliRun(ctx, opts, specs)
  \/ \E ctx \in Contexts, opts \in DirOptions : CliValidate(ctx, opts)
  \/ \E ctx \in Contexts, opts \in DirOptions : CliFormat(ctx, opts)
  \/ \E ctx \in Contexts, version \in {None, V1} : CliInstall(ctx, Java, version)

SpecCli == InitCli /\ [][NextCli]_vars

\* The task operation each subcommand ends with.
CliOperation ==
  [run |-> "run", validate |-> "validate", format |-> "format_specs",
   install |-> "install_plugin"]

\* C19: a subcommand that has run ends with exit code 0 or 1; 0 exactly when
\* its task operation returned true (gauge was spawned and exited 0), 1 when
\* the operation returned false and when loading, merging, resolution or
\* spawning raised.
CliExitCodes ==
  host.cmd # "none" =>
    /\ host.exit \in {0, 1}
    /\ host.exit = 0 <=>
         /\ call.op = CliOperation[host.cmd]
         /\ call.outcome = "returned" /\ call.value
         /\ call.completed = 1 /\ tool.exit = 0
    /\ (call.outcome = "returned" /\ ~call.value) => host.exit = 1
    /\ call.outcome = "raised" => host.exit = 1
    /\ call.outcome \in {"returned", "raised"}

\* C19 witness: validate ran gauge, gauge exited 1, the process exits 1.
CliValidateFalseExitsOne ==
  /\ host.cmd = "validate"
  /\ call.op = "validate" /\ call.outcome = "returned" /\ ~call.value
  /\ call.returncode = 1
  /\ host.exit = 1

ExecutingOps == {"run_specs", "validate_project", "plugin_format_specs"}

Work == <<"/", "w", "o", "r", "k">>

\* os.chdir(d) by the process, after an operation.
ChangeDir(d) ==
  /\ call.op \in TaskOps
  /\ d # getcwd
  /\ getcwd' = d
  /\ call' = [call EXCEPT !.stale = TRUE]
  /\ UNCHANGED <<kw, config, environ, files, which, tool, outer>>

\* os.environ replaced by e, after an operation.
ChangeEnviron(e) ==
  /\ call.op \in TaskOps
  /\ e # environ
  /\ environ' = e
  /\ call' = [call EXCEPT !.stale = TRUE]
  /\ UNCHANGED <<kw, config, files, which, getcwd, tool, outer>>

\* <root>/bin/gauge created or deleted, after an operation.
ChangeFiles(f) ==
  /\ call.op \in TaskOps
  /\ f # files
  /\ files' = f
  /\ call' = [call EXCEPT !.stale = TRUE]
  /\ UNCHANGED <<kw, config, environ, which, getcwd, tool, outer>>

\* gauge put on, or taken off, the search path, after an operation.
ChangeWhich(w) ==
  /\ call.op \in TaskOps
  /\ w # which
  /\ which' = w
  /\ call' = [call EXCEPT !.stale = TRUE]
  /\ UNCHANGED <<kw, config, environ, files, getcwd, tool, outer>>

AmbientValues ==
  [NoValues EXCEPT
     !.project_dir = {Empty, Proj},
     !.gauge_root = {OptGauge},
     !.environment_variables = {Dict1(TEST_VAR, ValB)}]

InitAmbient ==
  InitWith(KwSet(AmbientValues, {FieldNames}),
           {EmptyDict}, {{}}, {UsrBin},
           {[spawns |-> TRUE, exit |-> 0], [spawns |-> TRUE, exit |-> 1]})

NextAmbient ==
  \/ Construct
  \/ Run(NoList)
  \/ Validate
  \/ FormatSpecs
  \/ InstallPlugin(Java, None)
  \/ \E d \in {Home, Work} : ChangeDir(d)
  \/ \E e \in {EmptyDict, Dict1(PATH, ValA), Dict1(GAUGE_ROOT, OtherRoot)} : ChangeEnviron(e)
  \/ \E f \in SUBSET {OptGaugeBin} : ChangeFiles(f)
  \/ \E w \in {None, UsrBin} : ChangeWhich(w)

SpecAmbient == InitAmbient /\ [][NextAmbient]_vars

\* C21: the subprocess of an operation has as working directory the
\* configuration's project_dir when that is set and not empty, and else
\* the directory the process is in when the operation is called.
WorkingDirIsProjectDirOrCwd ==
  (call.op \in TaskOps /\ call.attempts = 1 /\ ~call.stale) =>
     call.wd = IF IsSet(config[1].project_dir)
                 THEN config[1].project_dir
                 ELSE getcwd

\* C21 witness: project_dir is "", the process went to /work after an
\* earlier operation, and validate ran gauge in /work.
ValidateRanInNewCwd ==
  /\ call.op = "validate" /\ call.attempts = 1 /\ ~call.stale
  /\ config[1].project_dir = Empty
  /\ getcwd = Work
  /\ call.wd = Work


\* C25: what an operation resolved, composed and picked is what the state
\* of its own call gives: the executable found in the files and on the
\* search path as they are now, the environment over os.environ as it is
\* now, the working directory from the present one; nothing is taken from
\* an earlier operation on the task.
NothingCachedBetweenCalls ==
  (call.op \in TaskOps /\ ~call.stale) =>
     LET found == find_gauge_executable(config[1], files, which)
     IN  /\ (call.outcome = "raised" /\ call.error = ErrNotFound) <=> ~found.found
         /\ call.searches = found.searches
         /\ found.found =>
              /\ call.exe = found.exe
              /\ call.argv[1] = found.exe
              /\ call.spawnenv = get_environment(config[1], environ)
              /\ call.wd = working_dir(config[1], getcwd)

\* C25 witness: after an operation gauge was installed under gauge_root,
\* PATH was set and the process changed directory; the next run used all
\* three.
RunUsedChangedAmbient ==
  /\ call.op = "run" /\ call.attempts = 1 /\ ~call.stale
  /\ ~IsSet(config[1].project_dir)
  /\ IsSet(config[1].gauge_root)
  /\ files = {OptGaugeBin} /\ environ = Dict1(PATH, ValA) /\ getcwd = Work
  /\ call.exe # UsrBin
  /\ call.wd = Work
  /\ PATH \in DOMAIN call.spawnenv


(***************************************************************************)
(* gauge-py config. tomlfile is pyproject.toml in the directory the        *)
(* process is in once the group callback has run, which is also the file   *)
(* --config names when it is given; there is no gauge.toml.                *)
(***************************************************************************)
\* The [tool.gauge] table of the sample config --init writes.
SampleTable ==
  [keys |-> <<"specs_dir", "in_parallel", "nodes", "env", "additional_flags",
              "environment_variables">>,
   vals |-> [specs_dir |-> SpecsDefault, in_parallel |-> FALSE, nodes |-> 1,
             env |-> <<"d", "e", "f", "a", "u", "l", "t">>,
             additional_flags |-> Empty, environment_variables |-> EmptyDict]]

\* The file open(config_file, 'w') and f.write leave.
SampleFile ==
  [exists |-> TRUE, malformed |-> FALSE, has_tool |-> TRUE,
   tool_gauge |-> <<SampleTable>>, gauge |-> <<>>]

\* config --init that writes the sample whether or not the file is there.
InitFileOverwrites(file) == [file |-> SampleFile, echo |-> <<"Initialized">>]

\* The `if init:` branch: the file afterwards and what is echoed.
init_file(file) ==
  IF file.exists
    THEN [file |-> file, echo |-> <<"already exists", "Sample configuration:", "sample">>]
    ELSE [file |-> SampleFile, echo |-> <<"Initialized">>]

\* load_config_from_file: the table found, <<>> for {}, and whether the
\* warning was echoed.
load_config_from_file(config_file, file) ==
  IF ~file.exists THEN [data |-> <<>>, warned |-> FALSE]
  ELSE IF file.malformed THEN [data |-> <<>>, warned |-> TRUE]
  ELSE IF file.tool_gauge # <<>> THEN [data |-> file.tool_gauge, warned |-> FALSE]
  ELSE [data |-> file.gauge, warned |-> FALSE]

\* The `elif show:` branch: what is echoed.
show_echo(config_file, file) ==
  LET r == load_config_from_file(config_file, file)
      w == IF r.warned THEN <<"Warning">> ELSE <<>>
  IN  IF r.data # <<>> /\ r.data[1].keys # <<>>
        THEN w \o <<"Current Gauge configuration:">>
        ELSE w \o <<"No Gauge configuration found.">>

\* gauge-py [options] config [--show] [--init]
CliConfig(ctx, show, init) ==
  /\ host.cmd = "none" /\ plugin.state = "none" /\ call.op = "none"
  /\ ctx.config_file # None => tomlfile.exists
  /\ tomlfile' = IF init THEN init_file(tomlfile).file ELSE tomlfile
  /\ host' = [cmd |-> "config", override |-> <<>>, exit |-> 0,
              echo |-> IF init THEN init_file(tomlfile).echo
                       ELSE IF show THEN show_echo(ctx.config_file, tomlfile)
                       ELSE <<"Use --show or --init">>,
              tasks |-> <<>>,
              options |-> <<>>]
  /\ call' = [NoCall EXCEPT !.op = IF init THEN "config --init"
                                   ELSE IF show THEN "config --show"
                                   ELSE "config",
                            !.outcome = "returned"]
  /\ getcwd' = chdir(getcwd, ctx.project_dir)
  /\ UNCHANGED <<kw, config, environ, files, which, tool, plugin>>

InitConfig ==
  /\ kw \in KwSet(NoValues, {FieldNames})
  /\ config = <<>>
  /\ environ = EmptyDict
  /\ files = {}
  /\ which \in {None, UsrBin}
  /\ getcwd \in {Home, Work}
  /\ tool = [spawns |-> TRUE, exit |-> 0]
  /\ call = NoCall
  /\ tomlfile \in TomlFiles
  /\ plugin = NoPlugin
  /\ host = NoHost

NextConfig ==
  \/ \E ctx \in Contexts, show \in BOOLEAN : CliConfig(ctx, show, TRUE)
  \/ \E ctx \in Contexts, show \in BOOLEAN : CliConfig(ctx, show, FALSE)

SpecConfig == InitConfig /\ [][NextConfig]_vars

\* C22: config --init leaves an existing pyproject.toml as it is, echoes
\* the sample and exits 0; without the file it creates one whose
\* [tool.gauge] has specs_dir = "specs"; with --show also given only this
\* is done.
InitNeverOverwrites ==
  [][\A ctx \in Contexts, show \in BOOLEAN :
       CliConfig(ctx, show, TRUE) =>
         /\ host'.exit = 0
         /\ tomlfile.exists =>
              /\ tomlfile' = tomlfile
              /\ host'.echo = <<"already exists", "Sample configuration:", "sample">>
         /\ ~tomlfile.exists =>
              /\ tomlfile'.exists /\ ~tomlfile'.malformed
              /\ tomlfile'.tool_gauge # <<>>
              /\ In("specs_dir", tomlfile'.tool_gauge[1].keys)
              /\ tomlfile'.tool_gauge[1].vals["specs_dir"] = SpecsDefault
              /\ host'.echo = <<"Initialized">>
         /\ call'.op = "config --init"]_vars

\* C22 witness: config --init ran where pyproject.toml already had its own
\* [tool.gauge]; the file is the one that was there and the exit code is 0.
InitKeptExistingFile ==
  /\ call.op = "config --init"
  /\ host.exit = 0
  /\ host.echo[1] = "already exists"
  /\ tomlfile.tool_gauge = <<TSnake>>


(***************************************************************************)
(* get_environment called again and again, its results changed by the      *)
(* caller, and operations in between.                                      *)
(***************************************************************************)
NEW_VAR == <<"N", "E", "W">>

InitEnvCalls ==
  InitWith(KwSet(EnvValues, {FieldNames}),
           {EmptyDict, Dict1(PATH, ValA), Dict1(GAUGE_ROOT, OtherRoot)},
           {{}}, {UsrBin}, {[spawns |-> TRUE, exit |-> 0]})

NextEnvCalls ==
  \/ Construct
  \/ GetEnvironment
  \/ \E k \in {NEW_VAR, PATH}, v \in {ValB} : ChangeReturned(k, v)
  \/ Run(NoList)
  \/ Validate

SpecEnvCalls == InitEnvCalls /\ [][NextEnvCalls]_vars

\* C24: no step changes os.environ, whether it is a get_environment call,
\* an operation that spawns with its result, or the caller changing a
\* mapping it was returned; every call returns a new mapping, composed over
\* os.environ as it is, and an operation spawns with exactly that.
EnvironmentNeverMutated ==
  [][/\ environ' = environ
     /\ (call'.op = "get_environment" /\ ~call'.stale) =>
          /\ call'.envref = "fresh"
          /\ call'.env = get_environment(config[1], environ)
     /\ (call'.op \in TaskOps /\ call'.attempts = 1) =>
          call'.spawnenv = get_environment(config[1], environ)]_vars

\* C24 witness: get_environment returned a mapping with GAUGE_ROOT and
\* TEST_VAR, the caller added NEW to it, and os.environ has none of the
\* three.
ChangedMappingLeftAmbient ==
  /\ call.op = "get_environment" /\ call.stale
  /\ IsSet(config[1].gauge_root)
  /\ {GAUGE_ROOT, TEST_VAR, NEW_VAR} \subseteq DOMAIN call.env
  /\ call.env[NEW_VAR] = ValB
  /\ DOMAIN environ = {PATH}


(***************************************************************************)
(* Configurations as objects. The facade's self.config is one object; a    *)
(* task made without override holds that very object, a task made with an  *)
(* override holds the new GaugeConfig. The caller keeps the tasks and goes *)
(* back and forth between them.                                            *)
(***************************************************************************)
\* create_task that sets the overriding fields on self.config and hands
\* that object to the task.
CreateTaskCallInPlace(c, ov) ==
  [shared |-> TRUE, task |-> create_task(c, ov),
   self |-> IF create_task(c, ov) = <<>> THEN c ELSE create_task(c, ov)[1]]

\* create_task as a call on objects: whether the task holds self.config
\* itself, the configuration of the task (<<>> when GaugeConfig raised), and
\* self.config after the call. config.dict() is a new dict and only that
\* dict is updated.
create_task_call(c, ov) ==
  [shared |-> ~OverrideGiven(ov), task |-> create_task(c, ov), self |-> c]

\* The configuration task i holds, as it is now.
TaskConfig(i) ==
  IF host.tasks[i].shared THEN plugin.config[1] ELSE host.tasks[i].own[1]

\* task = plugin.create_task(ov), kept by the caller; made is the value the
\* task's configuration had when the task was made.
KeepTask(ov) ==
  /\ plugin.state = "loaded"
  /\ Len(host.tasks) < MaxTasks
  /\ LET r == create_task_call(plugin.config[1], ov)
     IN  /\ plugin' = [plugin EXCEPT !.config = <<r.self>>]
         /\ config' = r.task
         /\ call' = IF r.task = <<>>
                      THEN [NoCall EXCEPT !.op = "create_task", !.outcome = "raised",
                                          !.error = ErrValidation]
                      ELSE [NoCall EXCEPT !.op = "create_task", !.outcome = "returned"]
         /\ host' = [host EXCEPT
                       !.override = ov,
                       !.tasks = IF r.task = <<>> THEN @
                                 ELSE Append(@, [shared |-> r.shared,
                                                 own |-> IF r.shared THEN <<>> ELSE r.task,
                                                 made |-> r.task[1]])]
  /\ UNCHANGED <<kw, ambient, tomlfile>>

\* The caller turns to task i: the operations that follow are task i's.
UseTask(i) ==
  /\ i \in 1..Len(host.tasks)
  /\ config # <<TaskConfig(i)>>
  /\ config' = <<TaskConfig(i)>>
  /\ call' = [NoCall EXCEPT !.op = "task", !.outcome = "returned"]
  /\ UNCHANGED <<kw, ambient, outer>>

SharedFiles ==
  {NoFile,
   [exists |-> TRUE, malformed |-> FALSE, has_tool |-> TRUE,
    tool_gauge |-> <<TSnake>>, gauge |-> <<>>]}

InitShared ==
  /\ kw \in KwSet(NoValues, {FieldNames})
  /\ config = <<>>
  /\ environ = EmptyDict
  /\ files = {}
  /\ which = UsrBin
  /\ getcwd = Home
  /\ tool \in {[spawns |-> TRUE, exit |-> 0], [spawns |-> TRUE, exit |-> 1]}
  /\ call = NoCall
  /\ tomlfile \in SharedFiles
  /\ plugin = [NoPlugin EXCEPT !.config_file = PyProject]
  /\ host = NoHost

NextShared ==
  \/ LoadPlugin
  \/ \E ov \in {<<>>} \cup {<<d>> : d \in OverrideDicts} : KeepTask(ov)
  \/ \E i \in 1..MaxTasks : UseTask(i)
  \/ Run(NoList)
  \/ Validate
  \/ FormatSpecs
  \/ InstallPlugin(Java, None)
  \/ ToCommandArgs
  \/ GetEnvironment

SpecShared == InitShared /\ [][NextShared]_vars

\* C23: whatever is called and in whatever order, the facade's
\* configuration has the values it was loaded with and the configuration of
\* every task the values it had when the task was made (also a task that
\* holds the facade's own configuration); an operation's argv, arguments
\* and environment are those the task's configuration as made gives.
ConfigurationsNeverMutated ==
  /\ plugin.state = "loaded" =>
       plugin.config = load_config(plugin.config_file, tomlfile).config
  /\ \A i \in 1..Len(host.tasks) : TaskConfig(i) = host.tasks[i].made
  /\ (config # <<>> /\ call.op # "create_task") =>
       \E i \in 1..Len(host.tasks) :
          /\ config[1] = host.tasks[i].made
          /\ call.op = "to_command_args" => call.args = to_command_args(host.tasks[i].made)
          /\ call.op = "get_environment" =>
               call.env = get_environment(host.tasks[i].made, environ)
          /\ (call.op \in TaskOps /\ call.attempts = 1) =>
               /\ call.spawnenv = get_environment(host.tasks[i].made, environ)
               /\ call.op = "run" =>
                    call.argv = run_command(host.tasks[i].made, call.exe, NoList)
               /\ call.op = "validate" =>
                    call.argv = validate_command(host.tasks[i].made, call.exe)

\* C23 witness: a task that holds the facade's configuration, then a task
\* made with an override, then run on the first task.
SharedTaskRanAfterOverride ==
  /\ Len(host.tasks) = 2
  /\ host.tasks[1].shared /\ ~host.tasks[2].shared
  /\ host.tasks[2].own # plugin.config
  /\ plugin.config[1].specs_dir = Custom
  /\ config = plugin.config
  /\ call.op = "run" /\ call.attempts = 1


(***************************************************************************)
(* An operation step by step. call.step is where the one thread of the     *)
(* caller is inside the operation: "called", "resolved" (after             *)
(* _find_gauge_executable), "assembled" (command, environment and working  *)
(* directory known), "spawned" (inside subprocess.run, the child running), *)
(* "waited" (the child has exited), and "returned" or "raised" at the end. *)
(* A child is outstanding exactly in step "spawned".                       *)
(***************************************************************************)
\* The command list of operation rec.op.
command_of(rec, c, exe) ==
  CASE rec.op = "run" -> run_command(c, exe, rec.specs)
    [] rec.op = "validate" -> validate_command(c, exe)
    [] rec.op = "format_specs" -> format_command(c, exe)
    [] rec.op = "install_plugin" -> install_command(exe, rec.plugin, rec.version)

\* gauge_exe = self._find_gauge_executable()
resolved(rec, c) ==
  LET found == find_gauge_executable(c, files, which)
  IN  IF found.found
        THEN [rec EXCEPT !.exe = found.exe, !.searches = found.searches,
                         !.step = "resolved"]
        ELSE [rec EXCEPT !.searches = found.searches, !.outcome = "raised",
                         !.error = ErrNotFound, !.step = "raised"]

\* command = [gauge_exe, ...]; env and working_dir of _run_command
assembled(rec, c) ==
  [rec EXCEPT !.argv = command_of(rec, c, rec.exe),
              !.spawnenv = get_environment(c, environ),
              !.wd = working_dir(c, getcwd),
              !.step = "assembled"]

\* subprocess.run starts the child, or raises and _run_command raises.
spawned(rec) ==
  IF tool.spawns
    THEN [rec EXCEPT !.attempts = @ + 1, !.step = "spawned"]
    ELSE [rec EXCEPT !.attempts = @ + 1, !.outcome = "raised",
                     !.error = ErrExecute, !.step = "raised"]

\* The end of subprocess.run when a child that exits non-zero is run once
\* more.
WaitedRetriesOnFailure(rec) ==
  IF tool.exit # 0 /\ rec.attempts < 2
    THEN [rec EXCEPT !.completed = @ + 1, !.returncode = tool.exit,
                     !.step = "assembled"]
    ELSE [rec EXCEPT !.completed = @ + 1, !.returncode = tool.exit,
                     !.step = "waited"]

\* subprocess.run returns: the child has exited (check=False).
waited(rec) ==
  [rec EXCEPT !.completed = @ + 1, !.returncode = tool.exit, !.step = "waited"]

\* return result.returncode == 0
returned(rec) ==
  [rec EXCEPT !.outcome = "returned", !.value = Success(rec.returncode),
              !.step = "returned"]

\* The caller calls one of the four operations; it can only when its last
\* call is over.
Begin(op, specs, plugin_name, version) ==
  /\ config # <<>>
  /\ call.step \in {"idle", "returned", "raised"}
  /\ call' = [NoCall EXCEPT !.op = op, !.specs = specs, !.plugin = plugin_name,
                            !.version = version, !.step = "called"]
  /\ UNCHANGED <<kw, config, ambient, outer>>

StepResolve ==
  /\ call.step = "called"
  /\ call' = resolved(call, config[1])
  /\ UNCHANGED <<kw, config, ambient, outer>>

StepAssemble ==
  /\ call.step = "resolved"
  /\ call' = assembled(call, config[1])
  /\ UNCHANGED <<kw, config, ambient, outer>>

StepSpawn ==
  /\ call.step = "assembled"
  /\ call' = spawned(call)
  /\ UNCHANGED <<kw, config, ambient, outer>>

StepWait ==
  /\ call.step = "spawned"
  /\ call' = waited(call)
  /\ UNCHANGED <<kw, config, ambient, outer>>

StepReturn ==
  /\ call.step = "waited"
  /\ call' = returned(call)
  /\ UNCHANGED <<kw, config, ambient, outer>>

StepValues ==
  [NoValues EXCEPT !.specs_dir = {Custom}, !.tags = {Smoke},
                   !.gauge_root = {OptGauge}]

InitSteps ==
  InitWith(KwSet(StepValues, {FieldNames}),
           {EmptyDict}, SUBSET {OptGaugeBin}, {None, UsrBin}, Tools)

NextSteps ==
  \/ Construct
  \/ \E specs \in {NoList, <<ASpec>>} : Begin("run", specs, None, None)
  \/ Begin("validate", NoList, None, None)
  \/ Begin("format_specs", NoList, None, None)
  \/ \E version \in {None, V1} : Begin("install_plugin", NoList, Java, version)
  \/ StepResolve
  \/ StepAssemble
  \/ StepSpawn
  \/ StepWait
  \/ StepReturn

SpecSteps == InitSteps /\ [][NextSteps]_vars


\* The steps that can follow one another.
StepOrder ==
  {<<"idle", "called">>, <<"returned", "called">>, <<"raised", "called">>,
   <<"called", "resolved">>, <<"called", "raised">>,
   <<"resolved", "assembled">>,
   <<"assembled", "spawned">>, <<"assembled", "raised">>,
   <<"spawned", "waited">>, <<"waited", "returned">>}

\* The counters of the operation under way, by step.
StepCounts ==
  /\ call.attempts \in {0, 1} /\ call.completed \in {0, 1}
  /\ call.completed <= call.attempts
  /\ call.step \in {"called", "resolved", "assembled"} => call.attempts = 0
  /\ call.step = "spawned" => call.attempts = 1 /\ call.completed = 0
  /\ call.step \in {"waited", "returned"} => call.attempts = 1 /\ call.completed = 1
  /\ call.step = "raised" =>
       /\ call.completed = 0
       /\ call.error = ErrNotFound => call.attempts = 0
       /\ call.error = ErrExecute => call.attempts = 1 /\ ~tool.spawns
  /\ call.step = "returned" =>
       /\ call.returncode = tool.exit
       /\ call.value = (tool.exit = 0)
  /\ call.step \in {"returned", "raised"} =>
       [call EXCEPT !.step = "idle"] =
         Executed([NoCall EXCEPT !.op = call.op, !.specs = call.specs,
                                 !.plugin = call.plugin, !.version = call.version],
                  config[1], find_gauge_executable(config[1], files, which),
                  command_of(call, config[1],
                             find_gauge_executable(config[1], files, which).exe))

\* C26: an operation goes resolve, assemble, spawn, wait, return and never
\* back; it spawns once when the executable was found and not at all when
\* not; it returns only when its child has exited, whatever the exit code;
\* a new operation starts only when the last is over, so no two children
\* are outstanding.
OneSubprocessPerOperation ==
  /\ []StepCounts
  /\ [][/\ call'.step # call.step => <<call.step, call'.step>> \in StepOrder
        /\ call'.attempts # call.attempts =>
             call.step \in {"assembled", "returned", "raised"}
        /\ call'.attempts > call.attempts => call.step = "assembled"
        /\ call'.step = "called" => call.step # "spawned"]_vars

\* C26 witness: run returned false after its one child exited 1.
ReturnedAfterOneFailedChild ==
  /\ call.op = "run" /\ call.step = "returned"
  /\ call.attempts = 1 /\ call.completed = 1
  /\ call.returncode = 1 /\ ~call.value


(***************************************************************************)
(* The build hosts: the Poetry commands (poetry_plugin.py) and the         *)
(* setuptools commands (setuptools_command.py). An option is the text the  *)
(* host hands over, None when it was not given; a flag is a boolean.       *)
(***************************************************************************)
\* str.strip(): the text without the whitespace at its two ends.
RECURSIVE Strip(_)
Strip(s) ==
  IF s = <<>> THEN s
  ELSE IF s[1] \in Whitespace THEN Strip(Tail(s))
  ELSE IF s[Len(s)] \in Whitespace THEN Strip(SubSeq(s, 1, Len(s) - 1))
  ELSE s

\* str.split(','): the pieces between the commas, empty ones included.
RECURSIVE SplitComma(_, _, _)
SplitComma(s, i, cur) ==
  IF i > Len(s) THEN <<cur>>
  ELSE IF s[i] = "," THEN <<cur>> \o SplitComma(s, i + 1, <<>>)
  ELSE SplitComma(s, i + 1, Append(cur, s[i]))

\* The value of a text of digits.
RECURSIVE DigitsValue(_)
DigitsValue(t) ==
  IF Len(t) = 0 THEN 0
  ELSE 10 * DigitsValue(SubSeq(t, 1, Len(t) - 1))
       + ((CHOOSE d \in 1..10 : Digits[d] = t[Len(t)]) - 1)

\* int(s) of a text: whitespace around, one sign, then digits only; ok is
\* false where int raises ValueError.
int_of(s) ==
  LET t == Strip(s)
      signed == t # <<>> /\ t[1] \in {"+", "-"}
      ds == IF signed THEN Tail(t) ELSE t
      ok == ds # <<>> /\ \A i \in 1..Len(ds) : \E d \in 1..10 : Digits[d] = ds[i]
  IN  [ok |-> ok,
       value |-> IF ~ok THEN 0
                 ELSE IF signed /\ t[1] = "-" THEN 0 - DigitsValue(ds)
                 ELSE DigitsValue(ds)]

\* The dict with the keys and values of pairs, in that order.
DictOf(pairs) ==
  [names |-> [i \in 1..Len(pairs) |-> pairs[i][1]],
   vals  |-> [f \in {pairs[i][1] : i \in 1..Len(pairs)} |->
                pairs[CHOOSE i \in 1..Len(pairs) : pairs[i][1] = f][2]]]

\* `if <text option>: config_dict[key] = <text option>`
Entry(key, v) == IF Truthy(v) THEN << <<key, v>> >> ELSE <<>>

ErrInt == "ValueError: invalid literal for int()"

\* The config_dict of Poetry's gauge run: ok is false when int() raises.
poetry_run_dict(o) ==
  [ok |-> Truthy(o.nodes) => int_of(o.nodes).ok,
   dict |-> DictOf(Entry("specs_dir", o.specs_dir)
                   \o Entry("tags", o.tags)
                   \o (IF o.parallel THEN << <<"in_parallel", TRUE>> >> ELSE <<>>)
                   \o (IF Truthy(o.nodes)
                         THEN << <<"nodes", int_of(o.nodes).value>> >> ELSE <<>>)
                   \o Entry("env", o.env)
                   \o Entry("additional_flags", o.additional_flags)
                   \o Entry("project_dir", o.project_dir)
                   \o Entry("gauge_root", o.gauge_root))]

\* The config_dict of the validate and format commands of both hosts.
dir_dict(o) ==
  DictOf(Entry("specs_dir", o.specs_dir) \o Entry("project_dir", o.project_dir)
         \o Entry("gauge_root", o.gauge_root))

ErrNodesOption == "ValueError: Invalid nodes value"

\* finalize_options without the test of the lower bound.
FinalizeAcceptsAnyInteger(o) ==
  IF o.nodes # None
    THEN IF ~int_of(o.nodes).ok
           THEN [ok |-> FALSE, nodes |-> <<>>]
           ELSE [ok |-> TRUE, nodes |-> <<int_of(o.nodes).value>>]
    ELSE [ok |-> TRUE, nodes |-> IF o.parallel THEN <<2>> ELSE <<>>]

\* GaugeCommand.finalize_options: self.nodes afterwards (<<>> for None), or
\* the ValueError.
finalize_options(o) ==
  IF o.nodes # None
    THEN IF ~int_of(o.nodes).ok \/ int_of(o.nodes).value < 1
           THEN [ok |-> FALSE, nodes |-> <<>>]
           ELSE [ok |-> TRUE, nodes |-> <<int_of(o.nodes).value>>]
    ELSE [ok |-> TRUE, nodes |-> IF o.parallel THEN <<2>> ELSE <<>>]

\* The config_dict of GaugeCommand.run, nodes being self.nodes after
\* finalize_options.
setuptools_run_dict(o, nodes) ==
  DictOf(Entry("specs_dir", o.specs_dir)
         \o Entry("tags", o.tags)
         \o (IF o.parallel THEN << <<"in_parallel", TRUE>> >> ELSE <<>>)
         \o (IF nodes # <<>> /\ nodes[1] # 0 THEN << <<"nodes", nodes[1]>> >> ELSE <<>>)
         \o Entry("env", o.env)
         \o Entry("additional_flags", o.additional_flags)
         \o Entry("project_dir", o.project_dir)
         \o Entry("gauge_root", o.gauge_root))

\* spec_files of GaugeCommand.run: the option split at the commas, each
\* piece stripped.
spec_files(specs) ==
  IF Truthy(specs)
    THEN [i \in 1..Len(SplitComma(specs, 1, <<>>)) |->
            Strip(SplitComma(specs, 1, <<>>)[i])]
    ELSE NoList


\* What a Poetry handle() returns when a false result counts as success.
HandleReturnIgnoresFalse(c) == IF c.outcome = "returned" THEN 0 ELSE 1

\* What a Poetry handle() returns: 0 after a true result, 1 after a false
\* one and in `except Exception`.
handle_return(c) == IF c.outcome = "returned" /\ c.value THEN 0 ELSE 1

\* How a setuptools run() ends: 0 for the normal return after a true result,
\* 1 for SystemExit(1), raised after a false result and in `except Exception`.
run_signal(c) == IF c.outcome = "returned" /\ c.value THEN 0 ELSE 1

\* Both hosts build GaugePlugin() without a configuration file.
HostContext == [config_file |-> None]

\* A call that ended while the option values were read.
OptionError(op, error) ==
  [NoCall EXCEPT !.op = op, !.outcome = "raised", !.error = error]

\* poetry gauge run [options] [specs...]
PoetryRun(o, specs) ==
  /\ host.cmd = "none" /\ plugin.state = "none" /\ call.op = "none"
  /\ LET b == poetry_run_dict(o)
         r == Subcommand(HostContext, b.dict,
                [NoCall EXCEPT !.op = "run",
                               !.specs = IF specs # <<>> THEN specs ELSE NoList],
                RunCmd)
     IN  IF ~b.ok
           THEN /\ call' = OptionError("options", ErrInt)
                /\ host' = [cmd |-> "poetry gauge run", override |-> <<>>, exit |-> 1,
                            echo |-> <<"Error", ErrInt>>, tasks |-> <<>>,
                            options |-> <<o>>]
                /\ UNCHANGED <<plugin, config>>
           ELSE /\ plugin' = r.plugin
                /\ config' = r.config
                /\ call' = r.call
                /\ host' = [cmd |-> "poetry gauge run", override |-> <<b.dict>>,
                            exit |-> handle_return(r.call),
                            echo |-> ResultEcho(r.call), tasks |-> <<>>,
                            options |-> <<o>>]
  /\ UNCHANGED <<kw, ambient, tomlfile>>

\* poetry gauge validate [options]
PoetryValidate(o) ==
  /\ host.cmd = "none" /\ plugin.state = "none" /\ call.op = "none"
  /\ LET d == dir_dict(o)
         r == Subcommand(HostContext, d, [NoCall EXCEPT !.op = "validate"],
                         ValidateCmd)
     IN  /\ plugin' = r.plugin
         /\ config' = r.config
         /\ call' = r.call
         /\ host' = [cmd |-> "poetry gauge validate", override |-> <<d>>,
                     exit |-> handle_return(r.call),
                     echo |-> ResultEcho(r.call), tasks |-> <<>>,
                     options |-> <<o>>]
  /\ UNCHANGED <<kw, ambient, tomlfile>>

\* poetry gauge format [options]
PoetryFormat(o) ==
  /\ host.cmd = "none" /\ plugin.state = "none" /\ call.op = "none"
  /\ LET d == dir_dict(o)
         r == Subcommand(HostContext, d, [NoCall EXCEPT !.op = "format_specs"],
                         FormatCmd)
     IN  /\ plugin' = r.plugin
         /\ config' = r.config
         /\ call' = r.call
         /\ host' = [cmd |-> "poetry gauge format", override |-> <<d>>,
                     exit |-> handle_return(r.call),
                     echo |-> ResultEcho(r.call), tasks |-> <<>>,
                     options |-> <<o>>]
  /\ UNCHANGED <<kw, ambient, tomlfile>>

\* poetry gauge install <plugin> [--version V] [--gauge-root R]
PoetryInstall(o, plugin_name, version) ==
  /\ host.cmd = "none" /\ plugin.state = "none" /\ call.op = "none"
  /\ LET d == DictOf(Entry("gauge_root", o.gauge_root))
         r == Subcommand(HostContext, d,
                [NoCall EXCEPT !.op = "install_plugin", !.plugin = plugin_name,
                               !.version = version],
                InstallCmd)
     IN  /\ plugin' = r.plugin
         /\ config' = r.config
         /\ call' = r.call
         /\ host' = [cmd |-> "poetry gauge install", override |-> <<d>>,
                     exit |-> handle_return(r.call),
                     echo |-> ResultEcho(r.call), tasks |-> <<>>,
                     options |-> <<o>>]
  /\ UNCHANGED <<kw, ambient, tomlfile>>

\* setup.py gauge [options]: finalize_options, then run(). A ValueError of
\* finalize_options leaves the command before run(): exit stays -1.
SetupGauge(o, specs) ==
  /\ host.cmd = "none" /\ plugin.state = "none" /\ call.op = "none"
  /\ LET f == finalize_options(o)
         d == setuptools_run_dict(o, f.nodes)
         r == Subcommand(HostContext, d,
                [NoCall EXCEPT !.op = "run", !.specs = spec_files(specs)], RunCmd)
     IN  IF ~f.ok
           THEN /\ call' = OptionError("finalize_options", ErrNodesOption)
                /\ host' = [cmd |-> "setuptools gauge", override |-> <<>>, exit |-> -1,
                            echo |-> <<>>, tasks |-> <<>>,
                            options |-> <<o>>]
                /\ UNCHANGED <<plugin, config>>
           ELSE /\ plugin' = r.plugin
                /\ config' = r.config
                /\ call' = r.call
                /\ host' = [cmd |-> "setuptools gauge", override |-> <<d>>,
                            exit |-> run_signal(r.call),
                            echo |-> ResultEcho(r.call), tasks |-> <<>>,
                            options |-> <<o>>]
  /\ UNCHANGED <<kw, ambient, tomlfile>>

\* setup.py gauge_validate [options]
SetupValidate(o) ==
  /\ host.cmd = "none" /\ plugin.state = "none" /\ call.op = "none"
  /\ LET d == dir_dict(o)
         r == Subcommand(HostContext, d, [NoCall EXCEPT !.op = "validate"],
                         ValidateCmd)
     IN  /\ plugin' = r.plugin
         /\ config' = r.config
         /\ call' = r.call
         /\ host' = [cmd |-> "setuptools gauge_validate", override |-> <<d>>,
                     exit |-> run_signal(r.call),
                     echo |-> ResultEcho(r.call), tasks |-> <<>>,
                     options |-> <<o>>]
  /\ UNCHANGED <<kw, ambient, tomlfile>>

\* setup.py gauge_format [options]
SetupFormat(o) ==
  /\ host.cmd = "none" /\ plugin.state = "none" /\ call.op = "none"
  /\ LET d == dir_dict(o)
         r == Subcommand(HostContext, d, [NoCall EXCEPT !.op = "format_specs"],
                         FormatCmd)
     IN  /\ plugin' = r.plugin
         /\ config' = r.config
         /\ call' = r.call
         /\ host' = [cmd |-> "setuptools gauge_format", override |-> <<d>>,
                     exit |-> run_signal(r.call),
                     echo |-> ResultEcho(r.call), tasks |-> <<>>,
                     options |-> <<o>>]
  /\ UNCHANGED <<kw, ambient, tomlfile>>

Zero == <<"0">>
Two  == <<"2">>
NotANumber == <<"x">>
MinusOne == <<"-", "1">>
TwoSpecs == ASpec \o <<",", " ">> \o BSpec

HostRunOptions ==
  [specs_dir : {None, Custom}, tags : {None, Smoke}, parallel : BOOLEAN,
   nodes : {None, Zero, Two, NotANumber, MinusOne}, env : {None},
   additional_flags : {None}, project_dir : {None, Proj},
   gauge_root : {None, OptGauge}]

HostDirOptions ==
  [specs_dir : {None, Custom}, project_dir : {None, Proj},
   gauge_root : {None, OptGauge}]

InitHosts ==
  /\ kw \in KwSet(NoValues, {FieldNames})
  /\ config = <<>>
  /\ environ = EmptyDict
  /\ files \in SUBSET {OptGaugeBin}
  /\ which \in {None, UsrBin}
  /\ getcwd = Home
  /\ tool \in {[spawns |-> FALSE, exit |-> 0]}
               \cup {[spawns |-> TRUE, exit |-> x] : x \in 0..MaxExit}
  /\ call = NoCall
  /\ tomlfile \in {NoFile, [exists |-> TRUE, malformed |-> FALSE, has_tool |-> TRUE,
                              tool_gauge |-> <<TZero>>, gauge |-> <<>>]}
  /\ plugin = NoPlugin
  /\ host = NoHost

NextHosts ==
  \/ \E o \in HostRunOptions, specs \in {<<>>, <<ASpec>>} : PoetryRun(o, specs)
  \/ \E o \in HostDirOptions : PoetryValidate(o)
  \/ \E o \in HostDirOptions : PoetryFormat(o)
  \/ \E o \in HostDirOptions, version \in {None, V1} : PoetryInstall(o, Java, version)
  \/ \E o \in HostRunOptions, specs \in {None, TwoSpecs} : SetupGauge(o, specs)
  \/ \E o \in HostDirOptions : SetupValidate(o)
  \/ \E o \in HostDirOptions : SetupFormat(o)

SpecHosts == InitHosts /\ [][NextHosts]_vars

PoetryCmds ==
  {"poetry gauge run", "poetry gauge validate", "poetry gauge format",
   "poetry gauge install"}

SetuptoolsCmds ==
  {"setuptools gauge", "setuptools gauge_validate", "setuptools gauge_format"}

\* The task operation each host command ends with.
HostOperation(cmd) ==
  CASE cmd \in {"poetry gauge run", "setuptools gauge"} -> "run"
    [] cmd \in {"poetry gauge validate", "setuptools gauge_validate"} -> "validate"
    [] cmd \in {"poetry gauge format", "setuptools gauge_format"} -> "format_specs"
    [] cmd = "poetry gauge install" -> "install_plugin"

\* C27: a host command whose handler was entered builds one facade and calls
\* at most one task operation, its own, and exactly one when the facade and
\* the task were created; Poetry returns 0 and setuptools returns normally
\* exactly when that operation returned true, and both signal 1 after a
\* false result and after any exception; an override the Configuration
\* rejects (nodes 0) never ends as success.
HostSignals ==
  host.cmd \in PoetryCmds \cup SetuptoolsCmds =>
    /\ call.attempts <= 1
    /\ call.op \in {HostOperation(host.cmd), "create_task", "options",
                    "finalize_options"}
    /\ (config # <<>> => call.op = HostOperation(host.cmd))
    /\ call.op # "finalize_options" =>
         /\ host.exit \in {0, 1}
         /\ host.exit = 0 <=> (call.op = HostOperation(host.cmd)
                                /\ call.outcome = "returned" /\ call.value)
         /\ (call.op \in {"options", "create_task"} => plugin.state # "failed")
    /\ call.op \in {"create_task", "options", "finalize_options"} =>
         host.exit # 0 /\ call.attempts = 0

PoetryZeroNodesReturnsOne ==
  /\ host.cmd = "poetry gauge run"
  /\ host.override # <<>>
  /\ In("nodes", host.override[1].names)
  /\ host.override[1].vals["nodes"] = 0
  /\ call.op = "create_task" /\ call.error = ErrValidation
  /\ host.exit = 1


\* the tokens t occur next to each other, in this order, in the list xs
Contains(xs, t) ==
  \E i \in 0..(Len(xs) - Len(t)) : \A j \in 1..Len(t) : xs[i + j] = t[j]

\* C30: setup.py gauge with a nodes option that is no integer, or one below
\* 1, ends in finalize_options with the ValueError and run() builds no
\* facade; with --parallel and no --nodes the override has nodes 2 and the
\* argv holds "--parallel" "--n" "2"; without --parallel a given nodes is
\* in the override and the argv has no "--n".
FinalizeOptionsGuardsRun ==
  host.cmd = "setuptools gauge" =>
    LET o == host.options[1]
        n == int_of(o.nodes)
        spawned_argv == call.attempts = 1
    IN  /\ (o.nodes # None /\ (~n.ok \/ n.value < 1)) =>
             /\ call.op = "finalize_options" /\ call.outcome = "raised"
             /\ call.error = ErrNodesOption
             /\ plugin = NoPlugin /\ host.override = <<>> /\ call.attempts = 0
        /\ (o.nodes = None \/ (n.ok /\ n.value >= 1)) => call.op # "finalize_options"
        /\ (o.parallel /\ o.nodes = None) =>
             /\ In("nodes", host.override[1].names)
             /\ host.override[1].vals["nodes"] = 2
             /\ spawned_argv => Contains(call.argv, <<ParallelFlag, NodesFlag, Two>>)
        /\ (~o.parallel /\ o.nodes # None /\ n.ok /\ n.value >= 1) =>
             /\ In("nodes", host.override[1].names)
             /\ host.override[1].vals["nodes"] = n.value
             /\ spawned_argv => ~In(NodesFlag, call.argv)

ParallelWithoutNodesRanTwo ==
  /\ host.cmd = "setuptools gauge"
  /\ host.options[1].parallel /\ host.options[1].nodes = None
  /\ call.attempts = 1 /\ call.outcome = "returned"
  /\ Contains(call.argv, <<ParallelFlag, NodesFlag, Two>>)


\* C28: the override of the run subcommand always names specs_dir,
\* in_parallel and nodes, with the values of the command line (the defaults
\* "specs", false, 1 when no flag was given), and the task's Configuration
\* holds these values whatever the loaded file said; tags, env and
\* additional_flags are named only when given and keep the loaded value
\* otherwise; validate and format do the same with specs_dir.
CliOptionsOverrideFile ==
  host.cmd \in {"run", "validate", "format"} =>
    LET d == host.override[1]
        opts == host.options[1]
        always == IF host.cmd = "run" THEN {"specs_dir", "in_parallel", "nodes"}
                  ELSE {"specs_dir"}
        optional == IF host.cmd = "run" THEN {"tags", "env", "additional_flags"}
                    ELSE {}
    IN  /\ \A f \in always :
             /\ In(f, d.names) /\ opts[f] # <<>> /\ d.vals[f] = opts[f][1]
             /\ config # <<>> => config[1][f] = opts[f][1]
        /\ \A f \in optional :
             /\ In(f, d.names) <=> opts[f] # <<>>
             /\ (config # <<>> /\ opts[f] # <<>>) => config[1][f] = opts[f][1]
             /\ (config # <<>> /\ opts[f] = <<>>) => config[1][f] = plugin.config[1][f]

DefaultsReplacedFileValues ==
  /\ host.cmd = "run"
  /\ plugin.config_file = PyProject /\ plugin.state = "loaded"
  /\ plugin.config[1].specs_dir = Custom /\ plugin.config[1].nodes = 2
  /\ host.options[1].specs_dir = <<SpecsDefault>> /\ host.options[1].nodes = <<1>>
  /\ config # <<>>
  /\ config[1].specs_dir = SpecsDefault /\ config[1].nodes = 1
  /\ call.attempts = 1 /\ call.outcome = "returned"


(***************************************************************************)
(* The command line started in Home with paths written relative to it and  *)
(* absolute ones.                                                          *)
(***************************************************************************)
AbsProj      == Home \o <<"/">> \o Proj
AbsPyProject == Home \o <<"/">> \o PyProject
ProjPyProject == AbsProj \o <<"/">> \o PyProject

PathContexts ==
  [config_file : {None, PyProject, AbsPyProject}, project_dir : {None, Proj, AbsProj},
   gauge_root : {None}]

PathRunOptions ==
  [specs_dir : {<<SpecsDefault>>}, tags : {<<>>, <<Smoke>>},
   in_parallel : {<<FALSE>>}, nodes : {<<1>>}, env : {<<>>}, additional_flags : {<<>>}]

InitPaths ==
  /\ kw \in KwSet(NoValues, {FieldNames})
  /\ config = <<>>
  /\ environ = EmptyDict
  /\ files \in SUBSET {OptGaugeBin, ProjPyProject}
  /\ which \in {None, UsrBin}
  /\ getcwd = Home
  /\ tool \in {[spawns |-> FALSE, exit |-> 0]}
               \cup {[spawns |-> TRUE, exit |-> x] : x \in 0..1}
  /\ call = NoCall
  /\ tomlfile \in {[exists |-> TRUE, malformed |-> FALSE, has_tool |-> TRUE,
                    tool_gauge |-> <<tg>>, gauge |-> <<>>] : tg \in {TSnake, TZero}}
  /\ plugin = NoPlugin
  /\ host = NoHost

NextPaths ==
  \/ \E ctx \in PathContexts, opts \in PathRunOptions, specs \in {<<>>, <<ASpec>>} :
        CliRun(ctx, opts, specs)
  \/ \E ctx \in PathContexts, opts \in DirOptions : CliValidate(ctx, opts)
  \/ \E ctx \in PathContexts, opts \in DirOptions : CliFormat(ctx, opts)
  \/ \E ctx \in PathContexts, version \in {None, V1} : CliInstall(ctx, Java, version)

SpecPaths == InitPaths /\ [][NextPaths]_vars

\* The directory the child process was started in: the cwd= argument as the
\* process resolves it at the time of the spawn.
ChildDirectory == resolve(getcwd, call.wd)

\* C29: after a subcommand started in Home with --project-dir P the child
\* has run in the directory P names from Home, and the configuration file
\* that was opened is the one the --config path names from Home.
PathsKeepTheirMeaning ==
  host.cmd \in {"run", "validate", "format", "install"} =>
    /\ (call.attempts = 1 /\ In("project_dir", host.override[1].names)) =>
         ChildDirectory = resolve(Home, host.override[1].vals["project_dir"])
    /\ Truthy(plugin.config_file) =>
         /\ resolve(getcwd, plugin.config_file) = resolve(Home, plugin.config_file)
         /\ plugin.config = load_config(plugin.config_file, tomlfile).config

============================================================================
